---------------------------- MODULE Spec2Model ----------------------------
(***************************************************************************)
(* A model of the Option / Result algebra of tstd (src/src/Option.ts,      *)
(* src/src/Result.ts) and of its capture constructors tryCatch and         *)
(* tryPromise.                                                             *)
(*                                                                         *)
(* Values.  Every JavaScript value is a record with a `tag`: numbers,      *)
(* strings, booleans, arrays and Error objects carry their type, and an    *)
(* Option or a Result is a record carrying the discriminant                *)
(* `tag` (the source's `_tag`), its payload (`value` / `error`) and `ref`, *)
(* the identity of the JavaScript object: the objects the caller builds    *)
(* carry the name of their role ("self", "other", "inner"), every object a *)
(* combinator constructs carries "fresh", and the exported constant None   *)
(* carries "None".  Equality of two records is therefore identity (toBe)   *)
(* for caller-built objects, and Strip(x) = Strip(y) is structural         *)
(* equality (toStrictEqual).                                               *)
(*                                                                         *)
(* Closures.  A callback is a record [id, kind, ...]: `id` names the       *)
(* parameter it is passed as and `kind` what it computes.  Invoke runs it  *)
(* and logs the call with the arguments it received, so that a             *)
(* combinator's outcome is                                                 *)
(*   [thrown |-> did it throw, val |-> returned / thrown value,            *)
(*    calls  |-> the callback invocations it made, in order,               *)
(*    writes |-> the assignments it made to objects that existed before].  *)
(***************************************************************************)
EXTENDS Integers, Sequences, FiniteSets, TLC

\* Payloads are the numbers 0..MaxVal.
MaxVal == 2

-----------------------------------------------------------------------------
(* JavaScript values *)

Num(n) == [tag |-> "number", n |-> n]

Str(s) == [tag |-> "string", s |-> s]

Bool(b) == [tag |-> "boolean", b |-> b]

Arr(items) == [tag |-> "Array", items |-> items]

Undefined == [tag |-> "undefined"]

\* A string whose characters are read: the sequence of its characters.
Text(chars) == [tag |-> "string", chars |-> chars]

\* str.trim(), for the space character
RECURSIVE TrimStart(_)
TrimStart(chars) ==
  IF chars # <<>> /\ Head(chars) = " " THEN TrimStart(Tail(chars)) ELSE chars

RECURSIVE TrimEnd(_)
TrimEnd(chars) ==
  IF chars # <<>> /\ chars[Len(chars)] = " "
  THEN TrimEnd(SubSeq(chars, 1, Len(chars) - 1))
  ELSE chars

Trim(chars) == TrimEnd(TrimStart(chars))

\* str.charAt(0): the first character, or the empty string
CharAt0(chars) == IF chars = <<>> THEN <<>> ELSE <<chars[1]>>

\* The upper-case form of the lower-case letters the callers use.
UpperOf == [a |-> "A", d |-> "D", e |-> "E", h |-> "H", j |-> "J", n |-> "N", o |-> "O"]

\* str.toUpperCase()
ToUpperCase(chars) ==
  [i \in DOMAIN chars |-> IF chars[i] \in DOMAIN UpperOf THEN UpperOf[chars[i]]
                           ELSE chars[i]]

\* new Error(message)
Error(message) == [tag |-> "Error", message |-> message]

\* The TypeError the engine raises when a value that is not a function is
\* called.
NotAFunction == [tag |-> "TypeError", message |-> "fn is not a function"]

\* Boolean(v)
Truthy(v) ==
  CASE v.tag = "boolean"   -> v.b
    [] v.tag = "number"    -> v.n # 0
    [] v.tag = "string"    -> IF "chars" \in DOMAIN v THEN v.chars # <<>> ELSE v.s # ""
    [] v.tag = "undefined" -> FALSE
    [] OTHER               -> TRUE

Vals == {Num(n) : n \in 0..MaxVal}

\* The failures a wrapped computation raises or rejects with.
Errors == {Error("oh"), Error("boom")}

-----------------------------------------------------------------------------
(* Constructors *)

Some(value) == [tag |-> "Some", value |-> value, ref |-> "fresh"]

None == [tag |-> "None", ref |-> "None"]

Ok(value) == [tag |-> "Ok", value |-> value, ref |-> "fresh"]

Err(error) == [tag |-> "Err", error |-> error, ref |-> "fresh"]

\* new UnknownException({ error }): a tagged error object holding `error`.
UnknownException(error) == [tag |-> "UnknownException", error |-> error]

\* The same object as built by the caller, under the identity r.
At(r, x) == IF x.ref = "None" THEN x ELSE [x EXCEPT !.ref = r]

\* The object without its identity: what toStrictEqual compares (one level).
Strip(x) == [x EXCEPT !.ref = "fresh"]

isSome(option) == option.tag = "Some"

isNone(self) == IF self.tag = "None" THEN TRUE ELSE FALSE

isOk(self) == self.tag = "Ok"

isErr(self) == self.tag = "Err"

-----------------------------------------------------------------------------
(* Duration *)

Abs(n) == IF n < 0 THEN -n ELSE n

RECURSIVE GCD(_, _)
GCD(a, b) == IF b = 0 THEN a ELSE GCD(b, a % b)

\* A number that need not be an integer: the fraction n / d in lowest terms,
\* d > 0.
Ratio(n, d) ==
  LET g == GCD(Abs(n), Abs(d))
      s == IF d < 0 THEN -1 ELSE 1
  IN [tag |-> "number", n |-> (s * n) \div g, d |-> (s * d) \div g]

\* new IntegerDivisionByZeroError()
IntegerDivisionByZeroError == [tag |-> "IntegerDivisionByZeroError"]

\* The duration of value * unitToMilliseconds milliseconds. Its other fields
\* (seconds, minutes, hours, days, _hashCode) are functions of milliseconds.
toDuration(value, unitToMilliseconds) ==
  [tag |-> "Duration",
   milliseconds |-> Ratio(value.n * unitToMilliseconds, value.d)]

fromMilliseconds(milliseconds) == toDuration(milliseconds, 1)

\* Mutant of divide: the scalar multiplies.
divide_multiplying(quotient, duration) ==
  IF quotient.n = 0
  THEN Err(IntegerDivisionByZeroError)
  ELSE Ok(fromMilliseconds(Ratio(duration.milliseconds.n * quotient.n,
                                 duration.milliseconds.d)))

\* Duration.divide(quotient)(duration); quotient is an integer here.
divide(quotient, duration) ==
  IF quotient.n = 0
  THEN Err(IntegerDivisionByZeroError)
  ELSE Ok(fromMilliseconds(Ratio(duration.milliseconds.n,
                                 duration.milliseconds.d * quotient.n)))

-----------------------------------------------------------------------------
(* Bounded integers *)

\* The base of the two limbs an integer is held in: 2^16.
Limb == 2^16

\* The integer hi * 2^16 + lo, 0 <= lo < 2^16, as a number or a bigint; hi is
\* unbounded, so values beyond 32 bits are held exactly.
Wide(type, hi, lo) == [tag |-> type, hi |-> hi, lo |-> lo]

\* A number literal that fits 32 signed bits.
Lit(n) == Wide("number", n \div Limb, n % Limb)

\* A bigint literal (0x7fn).
LitN(n) == Wide("bigint", n \div Limb, n % Limb)

\* The bitwise and of two naturals.
RECURSIVE BitAnd(_, _)
BitAnd(a, b) ==
  IF a = 0 \/ b = 0 THEN 0
  ELSE (a % 2) * (b % 2) + 2 * BitAnd(a \div 2, b \div 2)

\* ToInt32: the value modulo 2^32, read as a signed 32-bit integer.
ToInt32(x) ==
  LET h == x.hi % Limb
  IN Wide("number", IF h >= Limb \div 2 THEN h - Limb ELSE h, x.lo)

\* a & b on numbers: both operands through ToInt32, the result a signed
\* 32-bit integer.
NumberAnd(a, b) ==
  ToInt32(Wide("number", BitAnd(a.hi % Limb, b.hi % Limb), BitAnd(a.lo, b.lo)))

\* a & b on bigints, b a non-negative mask below 2^32: two's complement of
\* unbounded width, so the result is the non-negative integer of the masked
\* bits.
BigIntAnd(a, b) ==
  Wide("bigint", BitAnd(a.hi % Limb, b.hi), BitAnd(a.lo, b.lo))

\* a - b, exact.
Minus(a, b) ==
  IF a.lo - b.lo < 0
  THEN Wide(a.tag, a.hi - b.hi - 1, a.lo - b.lo + Limb)
  ELSE Wide(a.tag, a.hi - b.hi, a.lo - b.lo)

\* Number(bigint)
Number(x) == Wide("number", x.hi, x.lo)

\* a <= b
Leq(a, b) == a.hi < b.hi \/ (a.hi = b.hi /\ a.lo <= b.lo)

\* brand<T, B>(value): value as Branded<T, B>, the value itself.
brand(value) == value

I8_MIN == -128

I8_MAX == 127

I16_MIN == -32768

I16_MAX == 32767

\* -2_147_483_648
I32_MIN == Wide("number", -32768, 0)

I32_MAX == 2147483647

U8_MIN == 0

U8_MAX == 255

U16_MIN == 0

U16_MAX == 65535

U32_MIN == 0

\* 4_294_967_295
U32_MAX == Wide("number", 65535, 65535)

\* isBetweenInclusive(min, max)(value)
isBetweenInclusive(min, max, value) == Leq(min, value) /\ Leq(value, max)

i8(value) ==
  IF value.tag = "bigint"
  THEN brand(Number(Minus(BigIntAnd(value, LitN(127)), BigIntAnd(value, LitN(128)))))
  ELSE brand(Minus(NumberAnd(value, Lit(127)), NumberAnd(value, Lit(128))))

isI8(value) == isBetweenInclusive(Lit(I8_MIN), Lit(I8_MAX), value)

i16(value) ==
  IF value.tag = "bigint"
  THEN brand(Number(Minus(BigIntAnd(value, LitN(32767)), BigIntAnd(value, LitN(32768)))))
  ELSE brand(Minus(NumberAnd(value, Lit(32767)), NumberAnd(value, Lit(32768))))

isI16(value) == isBetweenInclusive(Lit(I16_MIN), Lit(I16_MAX), value)

\* 0x7fffffff is Wide(32767, 65535) and 0x80000000 is Wide(32768, 0).
i32(value) ==
  IF value.tag = "bigint"
  THEN brand(Number(Minus(BigIntAnd(value, Wide("bigint", 32767, 65535)),
                          BigIntAnd(value, Wide("bigint", 32768, 0)))))
  ELSE brand(Minus(NumberAnd(value, Wide("number", 32767, 65535)),
                   NumberAnd(value, Wide("number", 32768, 0))))

isI32(value) == isBetweenInclusive(I32_MIN, Lit(I32_MAX), value)

u8(value) ==
  IF value.tag = "bigint"
  THEN brand(Number(BigIntAnd(value, LitN(255))))
  ELSE brand(NumberAnd(value, Lit(255)))

isU8(value) == isBetweenInclusive(Lit(U8_MIN), Lit(U8_MAX), value)

u16(value) ==
  IF value.tag = "bigint"
  THEN brand(Number(BigIntAnd(value, LitN(65535))))
  ELSE brand(NumberAnd(value, Lit(65535)))

isU16(value) == isBetweenInclusive(Lit(U16_MIN), Lit(U16_MAX), value)

\* 0xffffffff is Wide(65535, 65535).
u32(value) ==
  IF value.tag = "bigint"
  THEN brand(Number(BigIntAnd(value, Wide("bigint", 65535, 65535))))
  ELSE brand(NumberAnd(value, Wide("number", 65535, 65535)))

isU32(value) == isBetweenInclusive(Lit(U32_MIN), U32_MAX, value)

-----------------------------------------------------------------------------
(* Callbacks and outcomes *)

\* () => ret, a callback that ignores what it is called with.
Const(id, ret) == [id |-> id, kind |-> "const", ret |-> ret]

\* () => { throw err }.
Thrower(id, err) == [id |-> id, kind |-> "throw", err |-> err]

\* A callback that computes from its arguments (see Apply).
Fn(id, kind) == [id |-> id, kind |-> kind]

\* A callback that compares its argument with the constant k it closes over.
FnK(id, kind, k) == [id |-> id, kind |-> kind, k |-> k]

\* Result.map(fn), the combinator applied to its argument and handed on as a
\* callback.
ResultMapOf(id, fn) == [id |-> id, kind |-> "Result.map", fn |-> fn]

\* Whether a value can be called.
IsFunction(f) == "kind" \in DOMAIN f

\* What a callback of each kind computes from the arguments it receives;
\* arguments beyond its parameters are ignored, as JavaScript does.
\*   sq    (x) => Ok(x * x)               err   (x) => Err(x)
\*   inc   (n) => n + 1                   add   (a, b) => a + b
\*   double (n) => n * 2                  upper (str) => str.toUpperCase()
\*   combine (a, b) => obfuscateFirstAndLastName(a, b)
\*   Result.map  (self) => map(fn)(self) of Result.ts
\*   isK   (v) => v === k                 someK (v) => v === k ? Some(v) : None
\*   mapped (e) => e.message === "oh" ? "mapped oh" : "mapped other"
\*   notK  (v) => v !== k
\*   Duration.divide  Duration.divide(k)   milliseconds (d) => d.milliseconds
RECURSIVE Apply(_, _)
Apply(f, args) ==
  CASE f.kind = "const" -> f.ret
    [] f.kind = "throw" -> f.err
    [] f.kind = "sq"    -> Ok(Num(args[1].n * args[1].n))
    [] f.kind = "err"   -> Err(args[1])
    [] f.kind = "inc"   -> Num(args[1].n + 1)
    [] f.kind = "add"   -> Num(args[1].n + args[2].n)
    [] f.kind = "double" -> Num(args[1].n * 2)
    [] f.kind = "upper" -> Text(ToUpperCase(args[1].chars))
    [] f.kind = "combine" ->
         IF Len(Trim(args[1].chars)) = 0 THEN Err(Error("First name is empty"))
         ELSE IF Len(Trim(args[2].chars)) = 0 THEN Err(Error("Last name is empty"))
         ELSE Ok(Text(CharAt0(Trim(args[1].chars)) \o CharAt0(Trim(args[2].chars))))
    [] f.kind = "Result.map" ->
         IF args[1].tag = "Ok"
         THEN Ok(Apply(f.fn, <<args[1].value>>))
         ELSE args[1]
    [] f.kind = "isK"   -> Bool(args[1] = f.k)
    [] f.kind = "notK"  -> Bool(args[1] # f.k)
    [] f.kind = "Duration.divide" -> divide(f.k, args[1])
    [] f.kind = "milliseconds"    -> args[1].milliseconds
    [] f.kind = "someK" -> IF args[1] = f.k THEN Some(args[1]) ELSE None
    [] f.kind = "mapped" ->
         IF args[1].message = "oh" THEN Str("mapped oh") ELSE Str("mapped other")

Ret(val) == [thrown |-> FALSE, val |-> val, calls |-> <<>>, writes |-> <<>>]

Throw(error) == [thrown |-> TRUE, val |-> error, calls |-> <<>>, writes |-> <<>>]

\* One invocation f(...args): its outcome, with the call logged.
Invoke(f, args) ==
  IF IsFunction(f)
  THEN [thrown |-> f.kind = "throw",
        val    |-> Apply(f, args),
        calls  |-> <<[fn |-> f.id, args |-> args]>>,
        writes |-> <<>>]
  ELSE Throw(NotAFunction)

\* Outcome r followed by outcome s (which may read r.val): a throw inside a
\* callback propagates out of the combinator that called it, and s is not run.
Then(r, s) ==
  IF r.thrown THEN r
  ELSE [s EXCEPT !.calls = r.calls \o s.calls, !.writes = r.writes \o s.writes]

-----------------------------------------------------------------------------
(* Option.ts: combinator `f(args)(self)` is Option_f(args, self).          *)
(* match(self).otherwise(h) of ts-pattern calls h(self).                   *)

Option_and(other, self) ==
  IF self.tag = "Some" THEN Ret(other) ELSE Ret(None)

Option_andThen(fn, self) ==
  IF self.tag = "Some" THEN Invoke(fn, <<self.value>>) ELSE Ret(None)

\* The text unwrap fails with.  A TLA+ string cannot hold a backquote: the
\* backquotes of the source's messages are written as apostrophes.
OptionUnwrapMessage == "Called 'Option.unwrap()' on a 'None' value"

\* Mutant of Option_expect: the failure carries the fixed text of unwrap.
Option_expect_fixed(msg, self) ==
  IF self.tag = "Some"
  THEN Ret(self.value)
  ELSE Throw(Error(OptionUnwrapMessage))

Option_expect(msg, self) ==
  IF self.tag = "Some" THEN Ret(self.value) ELSE Throw(Error(msg))

\* Mutant of Option_filter: absence is a new { _tag: "None" } object.
Option_filter_newNone(predicate, self) ==
  IF self.tag = "Some"
  THEN LET r == Invoke(predicate, <<self.value>>)
       IN Then(r, Ret(IF Truthy(r.val) THEN self ELSE [None EXCEPT !.ref = "fresh"]))
  ELSE Ret([None EXCEPT !.ref = "fresh"])

\* Mutant of Option_filter: a kept value is wrapped in a new Some.
Option_filter_rebuilt(predicate, self) ==
  IF self.tag = "Some"
  THEN LET r == Invoke(predicate, <<self.value>>)
       IN Then(r, Ret(IF Truthy(r.val) THEN Some(self.value) ELSE None))
  ELSE Ret(None)

Option_filter(predicate, self) ==
  IF self.tag = "Some"
  THEN LET r == Invoke(predicate, <<self.value>>)
       IN Then(r, Ret(IF Truthy(r.val) THEN self ELSE None))
  ELSE Ret(None)

\* Mutant of Option_flatten: the handler returns the matched receiver.
Option_flatten_receiver(self) ==
  IF self.tag = "Some" THEN Ret(self) ELSE Ret(None)

Option_flatten(self) ==
  IF self.tag = "Some" THEN Ret(self.value) ELSE Ret(None)

\* Mutant of Option_inspect: what fn returns is stored into the receiver.
Option_inspect_mutating(fn, self) ==
  IF self.tag = "Some"
  THEN LET r == Invoke(fn, <<self.value>>)
       IN Then(r, [Ret([self EXCEPT !.value = r.val]) EXCEPT
                     !.writes = <<[ref |-> self.ref, field |-> "value", val |-> r.val]>>])
  ELSE Ret(self)

Option_inspect(fn, self) ==
  IF self.tag = "Some"
  THEN Then(Invoke(fn, <<self.value>>), Ret(self))
  ELSE Ret(self)

\* Mutant of Option_isNoneOr: a None is answered with false.
Option_isNoneOr_strict(fn, self) ==
  IF self.tag = "None"
  THEN Ret(Bool(FALSE))
  ELSE LET r == Invoke(fn, <<self.value>>) IN Then(r, Ret(Bool(Truthy(r.val))))

Option_isNoneOr(fn, self) ==
  IF self.tag = "None"
  THEN Ret(Bool(TRUE))
  ELSE LET r == Invoke(fn, <<self.value>>) IN Then(r, Ret(Bool(Truthy(r.val))))

Option_isSomeAnd(predicate, self) ==
  IF self.tag = "Some" THEN Invoke(predicate, <<self.value>>) ELSE Ret(Bool(FALSE))

Option_map(fn, self) ==
  IF self.tag = "Some"
  THEN LET r == Invoke(fn, <<self.value>>) IN Then(r, Ret(Some(r.val)))
  ELSE Ret(None)

\* Mutant of Option_mapOr: the default is returned bare on None.
Option_mapOr_bare(defaultValue, fn, self) ==
  IF self.tag = "Some"
  THEN LET r == Invoke(fn, <<self.value>>) IN Then(r, Ret(Some(r.val)))
  ELSE Ret(defaultValue)

Option_mapOr(defaultValue, fn, self) ==
  IF self.tag = "Some"
  THEN LET r == Invoke(fn, <<self.value>>) IN Then(r, Ret(Some(r.val)))
  ELSE Ret(Some(defaultValue))

\* Mutant of Option_mapOrElse: the default is computed before the match.
Option_mapOrElse_eager(defaultFn, fn, self) ==
  LET d == Invoke(defaultFn, <<>>)
  IN IF self.tag = "Some"
     THEN LET r == Invoke(fn, <<self.value>>)
          IN Then(d, Then(r, Ret(Some(r.val))))
     ELSE Then(d, Ret(Some(d.val)))

Option_mapOrElse(defaultFn, fn, self) ==
  IF self.tag = "Some"
  THEN LET r == Invoke(fn, <<self.value>>) IN Then(r, Ret(Some(r.val)))
  ELSE LET r == Invoke(defaultFn, <<>>) IN Then(r, Ret(Some(r.val)))

\* Mutant of Option_okOr: the receiver, not its value, is wrapped.
Option_okOr_wrapSelf(err, self) ==
  IF self.tag = "Some" THEN Ret(Ok(self)) ELSE Ret(Err(err))

Option_okOr(err, self) ==
  IF self.tag = "Some" THEN Ret(Ok(self.value)) ELSE Ret(Err(err))

\* Mutant of Option_okOrElse: errFn is handed to the match fallback, which
\* calls it with the receiver.
Option_okOrElse_fallback(errFn, self) ==
  IF self.tag = "Some"
  THEN Ret(Ok(self.value))
  ELSE LET r == Invoke(errFn, <<self>>) IN Then(r, Ret(Err(r.val)))

\* Mutant of Option_okOrElse: errFn is consulted for a Some as well.
Option_okOrElse_always(errFn, self) ==
  LET r == Invoke(errFn, <<>>) IN Then(r, Ret(Err(r.val)))

Option_okOrElse(errFn, self) ==
  IF self.tag = "Some"
  THEN Ret(Ok(self.value))
  ELSE LET r == Invoke(errFn, <<>>) IN Then(r, Ret(Err(r.val)))

\* Mutant of Option_or: other wins whenever it is a Some.
Option_or_preferOther(other, self) ==
  IF isSome(other) THEN Ret(other) ELSE Ret(self)

Option_or(other, self) ==
  IF self.tag = "Some" THEN Ret(self) ELSE Ret(other)

Option_orElse(fn, self) ==
  IF self.tag = "Some" THEN Ret(self) ELSE Invoke(fn, <<self>>)

\* Mutant of Option_transpose: absence becomes a failure.
Option_transpose_errOnNone(self) ==
  IF self.tag = "Some" /\ isOk(self.value) THEN Ret(Ok(Some(self.value.value)))
  ELSE IF self.tag = "Some" /\ isErr(self.value) THEN Ret(Err(self.value.error))
  ELSE Ret(Err(Num(0)))

Option_transpose(self) ==
  IF self.tag = "Some" /\ isOk(self.value) THEN Ret(Ok(Some(self.value.value)))
  ELSE IF self.tag = "Some" /\ isErr(self.value) THEN Ret(Err(self.value.error))
  ELSE Ret(Ok(None))

Option_unwrap(self) ==
  IF self.tag = "Some"
  THEN Ret(self.value)
  ELSE Throw(Error(OptionUnwrapMessage))

\* Mutant of Option_unwrapOr: absence fails as in unwrap.
Option_unwrapOr_strict(defaultValue, self) ==
  IF self.tag = "Some" THEN Ret(self.value) ELSE Throw(Error(OptionUnwrapMessage))

Option_unwrapOr(defaultValue, self) ==
  IF self.tag = "Some" THEN Ret(self.value) ELSE Ret(defaultValue)

Option_unwrapOrElse(fn, self) ==
  IF self.tag = "Some" THEN Ret(self.value) ELSE Invoke(fn, <<self>>)

Option_unzip(self) ==
  IF self.tag = "Some"
  THEN Ret(Arr(<<Some(self.value.items[1]), Some(self.value.items[2])>>))
  ELSE Ret(Arr(<<None, None>>))

\* Mutant of Option_xor: the both-Some case is not told apart (xor as or).
Option_xor_asOr(other, self) ==
  IF self.tag = "Some" THEN Ret(self)
  ELSE (IF isNone(other) THEN Ret(None) ELSE Ret(other))

Option_xor(other, self) ==
  IF self.tag = "Some"
  THEN (IF isSome(other) THEN Ret(None) ELSE Ret(self))
  ELSE (IF isNone(other) THEN Ret(None) ELSE Ret(other))

\* Mutant of Option_zip: the pair is built the other way round.
Option_zip_swapped(other, self) ==
  IF isSome(self) /\ isSome(other)
  THEN Ret(Some(Arr(<<other.value, self.value>>)))
  ELSE Ret(None)

Option_zip(other, self) ==
  IF isSome(self) /\ isSome(other)
  THEN Ret(Some(Arr(<<self.value, other.value>>)))
  ELSE Ret(None)

Option_zipWith(other, fn, self) ==
  IF isSome(self) /\ isSome(other)
  THEN LET r == Invoke(fn, <<self.value, other.value>>)
       IN Then(r, Ret(Some(r.val)))
  ELSE Ret(None)

-----------------------------------------------------------------------------
(* Result.ts: combinator `f(args)(self)` is Result_f(args, self).          *)

\* The texts unwrap / unwrapErr fail with (backquotes written as apostrophes).
ResultUnwrapMessage == "Called 'unwrap' on an 'Err' value"

ResultUnwrapErrMessage == "Called 'unwrapErr' on an 'Ok' value"

Result_isOkAnd(predicate, self) ==
  IF self.tag = "Ok" THEN Invoke(predicate, <<self.value>>) ELSE Ret(Bool(FALSE))

Result_isErrAnd(predicate, self) ==
  IF self.tag = "Err" THEN Invoke(predicate, <<self.error>>) ELSE Ret(Bool(FALSE))

Result_and(other, self) ==
  IF self.tag = "Ok" THEN Ret(other) ELSE Ret(self)

Result_andThen(fn, self) ==
  IF self.tag = "Ok" THEN Invoke(fn, <<self.value>>) ELSE Ret(self)

Result_expect(message, self) ==
  IF self.tag = "Ok" THEN Ret(self.value) ELSE Throw(Error(message))

Result_expectErr(message, self) ==
  IF self.tag = "Err" THEN Ret(self.error) ELSE Throw(Error(message))

Result_flatten(self) ==
  IF self.tag = "Ok" THEN Ret(self.value) ELSE Ret(self)

\* Mutant of Result_inspect: fn is shown the error of an Err as well.
Result_inspect_always(fn, self) ==
  IF self.tag = "Ok"
  THEN Then(Invoke(fn, <<self.value>>), Ret(self))
  ELSE Then(Invoke(fn, <<self.error>>), Ret(self))

Result_inspect(fn, self) ==
  IF self.tag = "Ok"
  THEN Then(Invoke(fn, <<self.value>>), Ret(self))
  ELSE Ret(self)

\* Mutant of Result_inspectErr: fn is called on either variant.
Result_inspectErr_both(fn, self) ==
  IF self.tag = "Err"
  THEN Then(Invoke(fn, <<self.error>>), Ret(self))
  ELSE Then(Invoke(fn, <<self.value>>), Ret(self))

Result_inspectErr(fn, self) ==
  IF self.tag = "Err"
  THEN Then(Invoke(fn, <<self.error>>), Ret(self))
  ELSE Ret(self)

\* Mutant of Result_map: the failure is rebuilt instead of passed through.
Result_map_rebuild(fn, self) ==
  IF self.tag = "Ok"
  THEN LET r == Invoke(fn, <<self.value>>) IN Then(r, Ret(Ok(r.val)))
  ELSE Ret(Err(self.error))

Result_map(fn, self) ==
  IF self.tag = "Ok"
  THEN LET r == Invoke(fn, <<self.value>>) IN Then(r, Ret(Ok(r.val)))
  ELSE Ret(self)

Result_mapErr(fn, self) ==
  IF self.tag = "Err"
  THEN LET r == Invoke(fn, <<self.error>>) IN Then(r, Ret(Err(r.val)))
  ELSE Ret(self)

\* Mutant of Result_mapOr: the outcome is wrapped again, as Option.mapOr does.
Result_mapOr_wrapped(defaultValue, fn, self) ==
  IF self.tag = "Ok"
  THEN LET r == Invoke(fn, <<self.value>>) IN Then(r, Ret(Ok(r.val)))
  ELSE Ret(Ok(defaultValue))

Result_mapOr(defaultValue, fn, self) ==
  IF self.tag = "Ok" THEN Invoke(fn, <<self.value>>) ELSE Ret(defaultValue)

Result_mapOrElse(fnWhenErr, fn, self) ==
  IF self.tag = "Ok"
  THEN Invoke(fn, <<self.value>>)
  ELSE Invoke(fnWhenErr, <<self.error>>)

Result_or(other, self) ==
  IF self.tag = "Ok" THEN Ret(self) ELSE Ret(other)

\* Mutant of Result_orElse: op is called whatever the variant.
Result_orElse_eager(op, self) ==
  IF self.tag = "Ok"
  THEN Then(Invoke(op, <<self.value>>), Ret(self))
  ELSE Invoke(op, <<self.error>>)

Result_orElse(op, self) ==
  IF self.tag = "Ok" THEN Ret(self) ELSE Invoke(op, <<self.error>>)

\* Mutant of Result_unwrap: the contained error itself is thrown.
Result_unwrap_rethrow(self) ==
  IF self.tag = "Ok" THEN Ret(self.value) ELSE Throw(self.error)

Result_unwrap(self) ==
  IF self.tag = "Ok" THEN Ret(self.value) ELSE Throw(Error(ResultUnwrapMessage))

Result_unwrapErr(self) ==
  IF self.tag = "Err" THEN Ret(self.error) ELSE Throw(Error(ResultUnwrapErrMessage))

Result_unwrapOr(defaultValue, self) ==
  IF self.tag = "Ok" THEN Ret(self.value) ELSE Ret(defaultValue)

Result_unwrapOrElse(fn, self) ==
  IF self.tag = "Ok" THEN Ret(self.value) ELSE Invoke(fn, <<self.error>>)

\* Result.ok, as the callers read it from `import * as Result`: Result.ts has
\* no export of that name, so the property read yields undefined.
Result_ok == Undefined

\* tryCatch(fn): the plain-function overload.
tryCatchFn(fn) ==
  LET r == Invoke(fn, <<>>)
  IN IF r.thrown
     THEN [r EXCEPT !.thrown = FALSE, !.val = Err(UnknownException(r.val))]
     ELSE [r EXCEPT !.val = Ok(r.val)]

\* Mutant of tryCatchObj: the raised failure is not passed through `catch`.
tryCatchObj_unmapped(try, catch) ==
  LET r == Invoke(try, <<>>)
  IN IF r.thrown
     THEN [r EXCEPT !.thrown = FALSE, !.val = Err(r.val)]
     ELSE [r EXCEPT !.val = Ok(r.val)]

\* tryCatch({ try, catch }): the object overload; a throw inside `catch`
\* happens in the catch block and leaves tryCatch.
tryCatchObj(try, catch) ==
  LET r == Invoke(try, <<>>)
  IN IF r.thrown
     THEN LET c == Invoke(catch, <<r.val>>)
          IN [thrown |-> c.thrown,
              val    |-> IF c.thrown THEN c.val ELSE Err(c.val),
              calls  |-> r.calls \o c.calls,
              writes |-> r.writes \o c.writes]
     ELSE [r EXCEPT !.val = Ok(r.val)]

-----------------------------------------------------------------------------
(* Promises, as tryPromise uses them (Result.ts, tryPromise).              *)

NoPromise == [st |-> "none"]

\* What tryPromise returns: the promise kept in `returned`.
ReturnedPromise == [tag |-> "Promise"]

Pending == [st |-> "pending"]

Fulfilled(value) == [st |-> "fulfilled", value |-> value]

Rejected(reason) == [st |-> "rejected", reason |-> reason]

Settled(p) == p.st \in {"fulfilled", "rejected"}

\* p.then(Ok): Ok wraps a fulfilment, a rejection passes through.
ThenOk(p) ==
  IF p.st = "fulfilled" THEN Fulfilled(Ok(p.value)) ELSE p

\* Mutant of CatchFn: the rejection is not handled.
CatchFn_unhandled(p) == [promise |-> p, calls |-> <<>>]

\* p.catch((error) => Err(new UnknownException({ error }))).
CatchFn(p) ==
  IF p.st = "rejected"
  THEN [promise |-> Fulfilled(Err(UnknownException(p.reason))), calls |-> <<>>]
  ELSE [promise |-> p, calls |-> <<>>]

\* p.catch((error) => Err(fnOrObj.catch(error))): a throw inside the mapping
\* rejects the returned promise.
CatchObj(catch, p) ==
  IF p.st = "rejected"
  THEN LET c == Invoke(catch, <<p.reason>>)
       IN [promise |-> IF c.thrown THEN Rejected(c.val) ELSE Fulfilled(Err(c.val)),
           calls   |-> c.calls]
  ELSE [promise |-> p, calls |-> <<>>]

\* The synchronous part of tryPromise: fnOrObj() / fnOrObj.try() is called
\* outside any try block, then .then(Ok).catch(...) is chained on what it
\* returned.  `jobs` are the reaction jobs queued at once (the wrapped promise
\* is already settled).
tryPromise(try) ==
  LET r == Invoke(try, <<>>)
  IN IF r.thrown
     THEN [res |-> r, wrapped |-> NoPromise, chained |-> NoPromise,
           returned |-> NoPromise, jobs |-> <<>>]
     ELSE [res |-> [r EXCEPT !.val = ReturnedPromise], wrapped |-> r.val,
           chained |-> Pending, returned |-> Pending,
           jobs |-> IF Settled(r.val) THEN <<"then">> ELSE <<>>]

-----------------------------------------------------------------------------
(* pipe(x, ...fns): each step is a combinator already applied to its       *)
(* arguments, a unary function of the threaded value.                      *)

ApplyStep(step, x) ==
  CASE step.f = "Result.orElse"  -> Result_orElse(step.op, x)
    [] step.f = "Option.flatten" -> Option_flatten(x)
    [] step.f = "Option.zip"     -> Option_zip(step.other, x)
    [] step.f = "Option.unzip"   -> Option_unzip(x)
    [] step.f = "fn"             -> Invoke(step.fn, <<x>>)
    [] step.f = "Option.zipWith" -> Option_zipWith(step.other, step.fn, x)
    [] step.f = "Option.map"     -> Option_map(step.fn, x)
    [] step.f = "Option.andThen" -> Option_andThen(step.fn, x)
    [] step.f = "Option.and"     -> Option_and(step.other, x)
    [] step.f = "Option.filter"  -> Option_filter(step.predicate, x)
    [] step.f = "Option.inspect" -> Option_inspect(step.fn, x)
    [] step.f = "Option.or"      -> Option_or(step.other, x)
    [] step.f = "Option.orElse"  -> Option_orElse(step.fn, x)
    [] step.f = "Option.mapOr"   -> Option_mapOr(step.defaultValue, step.fn, x)
    [] step.f = "Option.okOr"    -> Option_okOr(step.err, x)
    [] step.f = "Option.unwrapOr" -> Option_unwrapOr(step.defaultValue, x)
    [] step.f = "Result.map"     -> Result_map(step.fn, x)
    [] step.f = "Result.andThen" -> Result_andThen(step.fn, x)
    [] step.f = "Result.and"     -> Result_and(step.other, x)
    [] step.f = "Result.inspect" -> Result_inspect(step.fn, x)
    [] step.f = "Result.flatten" -> Result_flatten(x)
    [] step.f = "Result.or"      -> Result_or(step.other, x)
    [] step.f = "Result.unwrapOr" -> Result_unwrapOr(step.defaultValue, x)

\* Mutant of pipe: the functions are applied from the last to the first.
RECURSIVE pipe_rightToLeft(_, _)
pipe_rightToLeft(x, fns) ==
  IF fns = <<>> THEN Ret(x)
  ELSE LET r == ApplyStep(fns[Len(fns)], x)
       IN Then(r, pipe_rightToLeft(r.val, SubSeq(fns, 1, Len(fns) - 1)))

\* Mutant of pipe: a step that raises is skipped and the chain goes on with
\* the value it had.
RECURSIVE pipe_swallow(_, _)
pipe_swallow(x, fns) ==
  IF fns = <<>> THEN Ret(x)
  ELSE LET r == ApplyStep(Head(fns), x)
           s == pipe_swallow(IF r.thrown THEN x ELSE r.val, Tail(fns))
       IN [s EXCEPT !.calls = r.calls \o s.calls, !.writes = r.writes \o s.writes]

RECURSIVE pipe(_, _)
pipe(x, fns) ==
  IF fns = <<>> THEN Ret(x)
  ELSE LET r == ApplyStep(Head(fns), x)
       IN Then(r, pipe(r.val, Tail(fns)))

-----------------------------------------------------------------------------
(* The inputs the caller builds *)

\* The longest pipe chain.
MaxChain == 3

OptSelf == {None} \cup {At("self", Some(v)) : v \in Vals}

OptOther == {None} \cup {At("other", Some(v)) : v \in Vals}

OptInner == {None} \cup {At("inner", Some(v)) : v \in Vals}

\* Option<Option<T>>
OptOptSelf == {None} \cup {At("self", Some(i)) : i \in OptInner}

\* Option<Option<Option<T>>>
OptOptOptSelf ==
  {None} \cup {At("self", Some(m)) :
                 m \in {None} \cup {At("middle", Some(i)) : i \in OptInner}}

ResSelf == {At("self", Ok(v)) : v \in Vals} \cup {At("self", Err(e)) : e \in Vals}

ResInner == {At("inner", Ok(v)) : v \in Vals} \cup {At("inner", Err(e)) : e \in Vals}

ResOther == {At("other", Ok(v)) : v \in Vals} \cup {At("other", Err(e)) : e \in Vals}

\* Result<Result<T, E>, E>
ResResSelf ==
  {At("self", Ok(r)) : r \in ResInner} \cup {At("self", Err(e)) : e \in Vals}

\* Option<Result<T, E>>
OptResSelf == {None} \cup {At("self", Some(r)) : r \in ResInner}

\* Option<[T, U]>
OptPairSelf ==
  {None} \cup {At("self", Some(Arr(<<a, b>>))) : a \in Vals, b \in Vals}

\* The messages a caller hands to expect / expectErr.
Msgs == {"oh no", "This should panic"}

\* The wrapped computations of tryCatch: () => v, () => { throw X }.
Thunks(id) == {Const(id, v) : v \in Vals} \cup {Thrower(id, e) : e \in Errors}

\* The catch mappings: () => "failed", one that reads the failure, and one
\* that itself throws.
Mappers ==
  {Const("catch", Str("failed")), Fn("catch", "mapped"),
   Thrower("catch", Error("failed again"))}

\* The promises a wrapped computation returns.
Promises ==
  {Pending} \cup {Fulfilled(v) : v \in Vals} \cup {Rejected(e) : e \in Errors}

\* The wrapped computations of tryPromise: they return a promise, or throw
\* before returning one.
PromiseThunks(id) ==
  {Const(id, p) : p \in Promises} \cup {Thrower(id, e) : e \in Errors}

\* The names the end-to-end pipeline is run on: "john", "doe" and "".
Names == {Text(<<"j", "o", "h", "n">>), Text(<<"d", "o", "e">>), Text(<<>>)}

OptFirstName == {None} \cup {At("self", Some(n)) : n \in Names}

OptLastName == {None} \cup {At("other", Some(n)) : n \in Names}

\* The names of the functions of a pipe chain, by position.
StepIds == <<"f1", "f2", "f3", "f4">>

\* The function at position i of a chain: addOne, double, or one that raises.
StepFn(i, k) ==
  IF k = "throw" THEN Thrower(StepIds[i], Error("oh")) ELSE Fn(StepIds[i], k)

\* (error) => Result callbacks of Result.orElse / Result.andThen.
ResultOps(id) == {Fn(id, "sq"), Fn(id, "err"), Thrower(id, Error("oh"))}

MaxMs == 3

MaxQ == 3

\* Durations of a whole number of milliseconds, of either direction.
Durations == {fromMilliseconds(Ratio(ms, 1)) : ms \in -MaxMs..MaxMs}

Quotients == {Num(q) : q \in -MaxQ..MaxQ}

\* Integers at and around the bounds of the six types, on both sides of zero
\* and beyond 32 bits.
Highs == {-65537, -32769, -32768, -1, 0, 1, 32767, 32768, 65535, 65536}

Lows == {0, 1, 127, 128, 255, 256, 32767, 32768, 65535}

Integers32 == {Wide(t, h, l) : t \in {"number", "bigint"}, h \in Highs, l \in Lows}

-----------------------------------------------------------------------------
(* The state: one library call at a time.                                  *)
(*   op       the function called ("idle": none)                           *)
(*   inp      its receiver and arguments                                   *)
(*   res      its outcome so far: thrown, val and the callbacks called     *)
(*   wrapped  the promise the wrapped computation of tryPromise returned   *)
(*   chained  wrapped.then(Ok)                                             *)
(*   returned chained.catch(...), the promise tryPromise returns           *)
(*   jobs     the promise reaction jobs queued (the microtask queue)       *)

\* The longest chain built step by step.
MaxSteps == 3

\* The steps a chain over a Result is continued with.
ResultSteps ==
  {[f |-> "Result.map", fn |-> Fn("map.fn", k)] : k \in {"inc", "sq"}}
  \cup {[f |-> "Result.andThen", fn |-> Fn("andThen.fn", k)] : k \in {"sq", "err"}}
  \cup {[f |-> "Result.and", other |-> At("other", Ok(Num(1)))],
        [f |-> "Result.or", other |-> At("other", Ok(Num(1)))],
        [f |-> "Result.inspect", fn |-> Const("inspect.fn", Undefined)],
        [f |-> "Result.flatten"],
        [f |-> "Result.orElse", op |-> Fn("orElse.op", "sq")],
        [f |-> "Result.unwrapOr", defaultValue |-> Num(0)]}

\* The steps a chain over an Option is continued with.
OptionSteps ==
  {[f |-> "Option.map", fn |-> fn] : fn \in {Fn("map.fn", "inc"), FnK("map.fn", "someK", Num(1))}}
  \cup {[f |-> "Option.andThen", fn |-> FnK("andThen.fn", "someK", Num(1))],
        [f |-> "Option.and", other |-> At("other", Some(Num(1)))],
        [f |-> "Option.filter", predicate |-> FnK("filter.predicate", "isK", Num(1))],
        [f |-> "Option.flatten"],
        [f |-> "Option.zip", other |-> At("other", Some(Num(1)))],
        [f |-> "Option.zipWith", other |-> At("other", Some(Num(1))),
         fn |-> Fn("zipWith.fn", "add")],
        [f |-> "Option.inspect", fn |-> Const("inspect.fn", Undefined)],
        [f |-> "Option.or", other |-> At("other", Some(Num(1)))],
        [f |-> "Option.orElse", fn |-> Const("orElse.fn", At("other", Some(Num(1))))],
        [f |-> "Option.mapOr", defaultValue |-> Num(0), fn |-> Fn("mapOr.fn", "inc")],
        [f |-> "Option.okOr", err |-> Error("oh")],
        [f |-> "Option.unwrapOr", defaultValue |-> Num(0)]}

\* Whether the value has the type the step is declared for: a callback on
\* numbers is given a Result or Option of a number, flatten a nested one.
OfNumber(v) ==
  \/ v.tag \in {"Err", "None"}
  \/ v.tag \in {"Ok", "Some"} /\ v.value.tag = "number"

Nested(v) ==
  \/ v.tag \in {"Err", "None"}
  \/ v.tag = "Ok" /\ v.value.tag \in {"Ok", "Err"}
  \/ v.tag = "Some" /\ v.value.tag \in {"Some", "None"}

Accepts(step, v) ==
  CASE step.f \in {"Result.flatten", "Option.flatten"} -> Nested(v)
    [] step.f \in {"Result.map", "Result.andThen", "Result.orElse", "Option.map",
                   "Option.zipWith", "Option.mapOr"} -> OfNumber(v)
    [] OTHER -> TRUE

\* No call: no receiver, no arguments.
NoInput == [form |-> "none"]

VARIABLES op, inp, res, wrapped, chained, returned, jobs

vars == <<op, inp, res, wrapped, chained, returned, jobs>>

promiseVars == <<wrapped, chained, returned, jobs>>

Init ==
  /\ op = "idle"
  /\ inp = NoInput
  /\ res = Ret(Undefined)
  /\ wrapped = NoPromise
  /\ chained = NoPromise
  /\ returned = NoPromise
  /\ jobs = <<>>

\* The caller makes the synchronous call o on input i with outcome r.
Do(o, i, r) ==
  /\ op' = o
  /\ inp' = i
  /\ res' = r
  /\ UNCHANGED promiseVars

CallOptionXor ==
  \E s \in OptSelf, o \in OptOther :
    /\ op = "idle"
    /\ Do("Option.xor", [self |-> s, other |-> o], Option_xor(o, s))

CallOptionTranspose ==
  \E s \in OptResSelf :
    /\ op = "idle"
    /\ Do("Option.transpose", [self |-> s], Option_transpose(s))

CallOptionFlatten ==
  \/ \E s \in OptOptSelf :
       /\ op = "idle"
       /\ Do("Option.flatten", [self |-> s], Option_flatten(s))
  \/ \E s \in OptOptOptSelf :
       /\ op = "idle"
       /\ Do("Option.flatten", [self |-> s], Option_flatten(s))

CallOptionZip ==
  \E s \in OptSelf, o \in OptOther :
    /\ op = "idle"
    /\ Do("Option.zip", [self |-> s, other |-> o], Option_zip(o, s))

CallOptionZipWith ==
  \E s \in OptSelf, o \in OptOther, fn \in {Fn("fn", "add"), Thrower("fn", Error("oh"))} :
    /\ op = "idle"
    /\ Do("Option.zipWith", [self |-> s, other |-> o, fn |-> fn],
       Option_zipWith(o, fn, s))

CallOptionUnzip ==
  \E s \in OptPairSelf :
    /\ op = "idle"
    /\ Do("Option.unzip", [self |-> s], Option_unzip(s))

CallOptionOrElse ==
  \E s \in OptSelf,
     fn \in {Const("fn", o) : o \in OptOther} \cup {Thrower("fn", Error("oh"))} :
    /\ op = "idle"
    /\ Do("Option.orElse", [self |-> s, fn |-> fn], Option_orElse(fn, s))

CallOptionUnwrapOrElse ==
  \E s \in OptSelf, fn \in {Const("fn", v) : v \in Vals} :
    /\ op = "idle"
    /\ Do("Option.unwrapOrElse", [self |-> s, fn |-> fn], Option_unwrapOrElse(fn, s))

CallOptionOkOrElse ==
  \E s \in OptSelf, errFn \in {Const("errFn", e) : e \in Errors} :
    /\ op = "idle"
    /\ Do("Option.okOrElse", [self |-> s, errFn |-> errFn], Option_okOrElse(errFn, s))

CallOptionMapOrElse ==
  \E s \in OptSelf, defaultFn \in {Const("defaultFn", v) : v \in Vals},
     fn \in {Fn("fn", "inc")} :
    /\ op = "idle"
    /\ Do("Option.mapOrElse", [self |-> s, defaultFn |-> defaultFn, fn |-> fn],
       Option_mapOrElse(defaultFn, fn, s))

CallOptionMapOr ==
  \E s \in OptSelf, d \in Vals, fn \in {Fn("fn", "inc")} :
    /\ op = "idle"
    /\ Do("Option.mapOr", [self |-> s, defaultValue |-> d, fn |-> fn],
       Option_mapOr(d, fn, s))

CallOptionUnwrap ==
  \E s \in OptSelf :
    /\ op = "idle"
    /\ Do("Option.unwrap", [self |-> s], Option_unwrap(s))

CallOptionExpect ==
  \E s \in OptSelf, msg \in Msgs :
    /\ op = "idle"
    /\ Do("Option.expect", [self |-> s, msg |-> msg], Option_expect(msg, s))

CallOptionIsSome ==
  \E s \in OptSelf :
    /\ op = "idle"
    /\ Do("Option.isSome", [self |-> s], Ret(Bool(isSome(s))))

CallOptionIsNone ==
  \E s \in OptSelf :
    /\ op = "idle"
    /\ Do("Option.isNone", [self |-> s], Ret(Bool(isNone(s))))

CallOptionIsSomeAnd ==
  \E s \in OptSelf, predicate \in {FnK("predicate", "isK", k) : k \in Vals} :
    /\ op = "idle"
    /\ Do("Option.isSomeAnd", [self |-> s, predicate |-> predicate],
       Option_isSomeAnd(predicate, s))

CallOptionIsNoneOr ==
  \E s \in OptSelf, fn \in {FnK("fn", "isK", k) : k \in Vals} :
    /\ op = "idle"
    /\ Do("Option.isNoneOr", [self |-> s, fn |-> fn], Option_isNoneOr(fn, s))

\* The four predicates on one receiver, with a predicate v => v === k and its
\* negation v => v !== k.
CallOptionPredicates ==
  \E s \in OptSelf, k \in Vals :
    /\ op = "idle"
    /\ LET p    == FnK("predicate", "isK", k)
           notP == FnK("predicate", "notK", k)
           a    == Option_isSomeAnd(p, s)
           b    == Option_isNoneOr(p, s)
           c    == Option_isSomeAnd(notP, s)
       IN Do("Option.predicates", [self |-> s, predicate |-> p],
             Then(a, Then(b, Then(c,
               Ret(Arr(<<Bool(isSome(s)), Bool(isNone(s)), a.val, b.val, c.val>>))))))

CallDurationDivide ==
  \E d \in Durations, q \in Quotients :
    /\ op = "idle"
    /\ Do("Duration.divide", [self |-> d, quotient |-> q], Ret(divide(q, d)))

\* Result.map(d => d.milliseconds) over the quotient.
CallDurationDivideMap ==
  \E d \in Durations, q \in Quotients :
    /\ op = "idle"
    /\ LET fn == Fn("fn", "milliseconds")
       IN Do("Duration.divide.map", [self |-> d, quotient |-> q, fn |-> fn],
             Result_map(fn, divide(q, d)))

\* Result.andThen(Duration.divide(k)) over the quotient.
CallDurationDivideAndThen ==
  \E d \in Durations, q \in Quotients, k \in Quotients :
    /\ op = "idle"
    /\ LET fn == FnK("fn", "Duration.divide", k)
       IN Do("Duration.divide.andThen", [self |-> d, quotient |-> q, fn |-> fn],
             Result_andThen(fn, divide(q, d)))

\* c(value), then the range check of the type on the result and on the input.
CallI8 ==
  \E v \in Integers32 :
    /\ op = "idle"
    /\ Do("math.i8", [value |-> v],
          Ret(Arr(<<i8(v), Bool(isI8(i8(v))), Bool(isI8(Number(v)))>>)))

CallI16 ==
  \E v \in Integers32 :
    /\ op = "idle"
    /\ Do("math.i16", [value |-> v],
          Ret(Arr(<<i16(v), Bool(isI16(i16(v))), Bool(isI16(Number(v)))>>)))

CallI32 ==
  \E v \in Integers32 :
    /\ op = "idle"
    /\ Do("math.i32", [value |-> v],
          Ret(Arr(<<i32(v), Bool(isI32(i32(v))), Bool(isI32(Number(v)))>>)))

CallU8 ==
  \E v \in Integers32 :
    /\ op = "idle"
    /\ Do("math.u8", [value |-> v],
          Ret(Arr(<<u8(v), Bool(isU8(u8(v))), Bool(isU8(Number(v)))>>)))

CallU16 ==
  \E v \in Integers32 :
    /\ op = "idle"
    /\ Do("math.u16", [value |-> v],
          Ret(Arr(<<u16(v), Bool(isU16(u16(v))), Bool(isU16(Number(v)))>>)))

CallU32 ==
  \E v \in Integers32 :
    /\ op = "idle"
    /\ Do("math.u32", [value |-> v],
          Ret(Arr(<<u32(v), Bool(isU32(u32(v))), Bool(isU32(Number(v)))>>)))

CallOptionAnd ==
  \E s \in OptSelf, o \in OptOther :
    /\ op = "idle"
    /\ Do("Option.and", [self |-> s, other |-> o], Option_and(o, s))

CallOptionOr ==
  \E s \in OptSelf, o \in OptOther :
    /\ op = "idle"
    /\ Do("Option.or", [self |-> s, other |-> o], Option_or(o, s))

CallOptionOkOr ==
  \E s \in OptSelf, e \in Errors :
    /\ op = "idle"
    /\ Do("Option.okOr", [self |-> s, err |-> e], Option_okOr(e, s))

CallOptionUnwrapOr ==
  \E s \in OptSelf, d \in Vals :
    /\ op = "idle"
    /\ Do("Option.unwrapOr", [self |-> s, defaultValue |-> d], Option_unwrapOr(d, s))

\* The result of the eager combinator next to that of its lazy counterpart
\* given a closure that returns the same value.
Both(eager, lazy) ==
  Then(eager, Then(lazy, Ret(Arr(<<eager.val, lazy.val>>))))

CallOptionEagerLazy ==
  \/ \E s \in OptSelf, x \in OptOther :
       /\ op = "idle"
       /\ Do("Option.eager.lazy", [pair |-> "and", self |-> s, other |-> x],
          Both(Option_and(x, s), Option_andThen(Const("fn", x), s)))
  \/ \E s \in OptSelf, x \in OptOther :
       /\ op = "idle"
       /\ Do("Option.eager.lazy", [pair |-> "or", self |-> s, other |-> x],
          Both(Option_or(x, s), Option_orElse(Const("fn", x), s)))
  \/ \E s \in OptSelf, d \in Vals :
       /\ op = "idle"
       /\ Do("Option.eager.lazy", [pair |-> "unwrapOr", self |-> s, defaultValue |-> d],
          Both(Option_unwrapOr(d, s), Option_unwrapOrElse(Const("fn", d), s)))
  \/ \E s \in OptSelf, e \in Errors :
       /\ op = "idle"
       /\ Do("Option.eager.lazy", [pair |-> "okOr", self |-> s, err |-> e],
          Both(Option_okOr(e, s), Option_okOrElse(Const("errFn", e), s)))
  \/ \E s \in OptSelf, d \in Vals :
       /\ op = "idle"
       /\ Do("Option.eager.lazy", [pair |-> "mapOr", self |-> s, defaultValue |-> d],
          Both(Option_mapOr(d, Fn("fn", "inc"), s),
               Option_mapOrElse(Const("defaultFn", d), Fn("fn", "inc"), s)))

CallOptionAndThen ==
  \E s \in OptSelf, fn \in {FnK("fn", "someK", k) : k \in Vals} :
    /\ op = "idle"
    /\ Do("Option.andThen", [self |-> s, fn |-> fn], Option_andThen(fn, s))

CallOptionMap ==
  \E s \in OptSelf, fn \in {Fn("fn", "inc"), Thrower("fn", Error("oh"))} :
    /\ op = "idle"
    /\ Do("Option.map", [self |-> s, fn |-> fn], Option_map(fn, s))

CallOptionFilter ==
  \E s \in OptSelf, predicate \in {FnK("predicate", "isK", k) : k \in Vals} :
    /\ op = "idle"
    /\ Do("Option.filter", [self |-> s, predicate |-> predicate],
       Option_filter(predicate, s))

CallOptionInspect ==
  \E s \in OptSelf, fn \in {Const("fn", v) : v \in Vals} :
    /\ op = "idle"
    /\ Do("Option.inspect", [self |-> s, fn |-> fn], Option_inspect(fn, s))

CallResultOrElse ==
  \E s \in ResSelf, f \in ResultOps("op") :
    /\ op = "idle"
    /\ Do("Result.orElse", [self |-> s, op |-> f], Result_orElse(f, s))

CallResultUnwrapOrElse ==
  \E s \in ResSelf, fn \in {Fn("fn", "inc")} :
    /\ op = "idle"
    /\ Do("Result.unwrapOrElse", [self |-> s, fn |-> fn], Result_unwrapOrElse(fn, s))

CallResultMapOr ==
  \E s \in ResSelf, d \in Vals, fn \in {Fn("fn", "inc")} :
    /\ op = "idle"
    /\ Do("Result.mapOr", [self |-> s, defaultValue |-> d, fn |-> fn],
       Result_mapOr(d, fn, s))

CallResultMapOrElse ==
  \E s \in ResSelf, fnWhenErr \in {Fn("fnWhenErr", "inc")}, fn \in {Fn("fn", "inc")} :
    /\ op = "idle"
    /\ Do("Result.mapOrElse", [self |-> s, fnWhenErr |-> fnWhenErr, fn |-> fn],
       Result_mapOrElse(fnWhenErr, fn, s))

CallResultAndThen ==
  \E s \in ResSelf, fn \in ResultOps("fn") :
    /\ op = "idle"
    /\ Do("Result.andThen", [self |-> s, fn |-> fn], Result_andThen(fn, s))

CallResultMap ==
  \E s \in ResSelf, fn \in {Fn("fn", "inc")} :
    /\ op = "idle"
    /\ Do("Result.map", [self |-> s, fn |-> fn], Result_map(fn, s))

CallResultInspect ==
  \E s \in ResSelf, fn \in {Const("fn", v) : v \in Vals} :
    /\ op = "idle"
    /\ Do("Result.inspect", [self |-> s, fn |-> fn], Result_inspect(fn, s))

CallResultIsOk ==
  \E s \in ResSelf :
    /\ op = "idle"
    /\ Do("Result.isOk", [self |-> s], Ret(Bool(isOk(s))))

CallResultIsErr ==
  \E s \in ResSelf :
    /\ op = "idle"
    /\ Do("Result.isErr", [self |-> s], Ret(Bool(isErr(s))))

CallResultIsOkAnd ==
  \E s \in ResSelf, predicate \in {FnK("predicate", "isK", k) : k \in Vals} :
    /\ op = "idle"
    /\ Do("Result.isOkAnd", [self |-> s, predicate |-> predicate],
       Result_isOkAnd(predicate, s))

CallResultIsErrAnd ==
  \E s \in ResSelf, predicate \in {FnK("predicate", "isK", k) : k \in Vals} :
    /\ op = "idle"
    /\ Do("Result.isErrAnd", [self |-> s, predicate |-> predicate],
       Result_isErrAnd(predicate, s))

CallResultAnd ==
  \E s \in ResSelf, o \in ResOther :
    /\ op = "idle"
    /\ Do("Result.and", [self |-> s, other |-> o], Result_and(o, s))

CallResultOr ==
  \E s \in ResSelf, o \in ResOther :
    /\ op = "idle"
    /\ Do("Result.or", [self |-> s, other |-> o], Result_or(o, s))

CallResultExpect ==
  \E s \in ResSelf, msg \in Msgs :
    /\ op = "idle"
    /\ Do("Result.expect", [self |-> s, msg |-> msg], Result_expect(msg, s))

CallResultExpectErr ==
  \E s \in ResSelf, msg \in Msgs :
    /\ op = "idle"
    /\ Do("Result.expectErr", [self |-> s, msg |-> msg], Result_expectErr(msg, s))

CallResultFlatten ==
  \E s \in ResResSelf :
    /\ op = "idle"
    /\ Do("Result.flatten", [self |-> s], Result_flatten(s))

CallResultInspectErr ==
  \E s \in ResSelf, fn \in {Const("fn", v) : v \in Vals} :
    /\ op = "idle"
    /\ Do("Result.inspectErr", [self |-> s, fn |-> fn], Result_inspectErr(fn, s))

CallResultMapErr ==
  \E s \in ResSelf, fn \in {Fn("fn", "inc"), Thrower("fn", Error("oh"))} :
    /\ op = "idle"
    /\ Do("Result.mapErr", [self |-> s, fn |-> fn], Result_mapErr(fn, s))

CallResultUnwrap ==
  \E s \in ResSelf :
    /\ op = "idle"
    /\ Do("Result.unwrap", [self |-> s], Result_unwrap(s))

CallResultUnwrapErr ==
  \E s \in ResSelf :
    /\ op = "idle"
    /\ Do("Result.unwrapErr", [self |-> s], Result_unwrapErr(s))

CallResultUnwrapOr ==
  \E s \in ResSelf, d \in Vals :
    /\ op = "idle"
    /\ Do("Result.unwrapOr", [self |-> s, defaultValue |-> d], Result_unwrapOr(d, s))

\* pipe(self, orElse(ops[1]), ..., orElse(ops[n]))
CallPipeOrElse ==
  \E s \in ResSelf, n \in 0..MaxChain :
    \E ops \in [1..n -> ResultOps("op")] :
      /\ op = "idle"
      /\ Do("pipe.orElse", [self |-> s, ops |-> ops],
         pipe(s, [i \in 1..n |-> [f |-> "Result.orElse", op |-> ops[i]]]))

\* pipe(x, fns[1], ..., fns[n]) over unary functions
CallPipe ==
  \E x \in Vals, n \in 0..MaxChain :
    \E ks \in [1..n -> {"inc", "double", "throw"}] :
      /\ op = "idle"
      /\ Do("pipe", [self |-> x, fns |-> [i \in 1..n |-> StepFn(i, ks[i])]],
         pipe(x, [i \in 1..n |-> [f |-> "fn", fn |-> StepFn(i, ks[i])]]))

\* pipe(x), the chain before its first step.
StartResultChain ==
  \E s \in ResSelf :
    /\ op = "idle"
    /\ Do("Result.chain", [self |-> s, fns |-> <<>>], pipe(s, <<>>))

StartOptionChain ==
  \E s \in OptSelf :
    /\ op = "idle"
    /\ Do("Option.chain", [self |-> s, fns |-> <<>>], pipe(s, <<>>))

\* The chain is continued with one more step, applied to the value it holds:
\* pipe(x, ...fns, step).
StepResultChain ==
  \E step \in ResultSteps :
    /\ op = "Result.chain"
    /\ Len(inp.fns) < MaxSteps
    /\ res.val.tag \in {"Ok", "Err"}
    /\ Accepts(step, res.val)
    /\ Do("Result.chain", [inp EXCEPT !.fns = Append(@, step)],
          Then(res, ApplyStep(step, res.val)))

StepOptionChain ==
  \E step \in OptionSteps :
    /\ op = "Option.chain"
    /\ Len(inp.fns) < MaxSteps
    /\ res.val.tag \in {"Some", "None"}
    /\ Accepts(step, res.val)
    /\ Do("Option.chain", [inp EXCEPT !.fns = Append(@, step)],
          Then(res, ApplyStep(step, res.val)))

\* pipe(first, zipWith(last, combine), map(Result.map(upper)), map(Result.ok),
\*      flatten)
CallPipeline ==
  \E first \in OptFirstName, last \in OptLastName :
    /\ op = "idle"
    /\ Do("pipeline", [first |-> first, last |-> last],
       pipe(first,
            <<[f |-> "Option.zipWith", other |-> last, fn |-> Fn("combine", "combine")],
              [f |-> "Option.map",
               fn |-> ResultMapOf("Result.map(upper)", Fn("upper", "upper"))],
              [f |-> "Option.map", fn |-> Result_ok],
              [f |-> "Option.flatten"]>>))

\* flatten(flatten(self))
CallOptionFlattenTwice ==
  \E s \in OptOptOptSelf :
    /\ op = "idle"
    /\ Do("Option.flatten.flatten", [self |-> s],
       LET r == Option_flatten(s) IN Then(r, Option_flatten(r.val)))

\* unzip(zip(other)(self))
CallOptionUnzipZip ==
  \E s \in OptSelf, o \in OptOther :
    /\ op = "idle"
    /\ Do("Option.zip.unzip", [self |-> s, other |-> o],
       LET r == Option_zip(o, s) IN Then(r, Option_unzip(r.val)))

\* pipe(self, flatten, ..., flatten), n times
CallPipeFlatten ==
  \E s \in OptOptOptSelf, n \in 0..2 :
    /\ op = "idle"
    /\ Do("pipe.flatten", [self |-> s, n |-> n],
       pipe(s, [i \in 1..n |-> [f |-> "Option.flatten"]]))

\* pipe(self, zip(other), unzip)
CallPipeZipUnzip ==
  \E s \in OptSelf, o \in OptOther :
    /\ op = "idle"
    /\ Do("pipe.zip.unzip", [self |-> s, other |-> o],
       pipe(s, <<[f |-> "Option.zip", other |-> o], [f |-> "Option.unzip"]>>))

CallTryCatchFn ==
  \E fn \in Thunks("fn") :
    /\ op = "idle"
    /\ Do("tryCatch", [form |-> "fn", try |-> fn], tryCatchFn(fn))

CallTryCatchObj ==
  \E t \in Thunks("try"), c \in Mappers :
    /\ op = "idle"
    /\ Do("tryCatch", [form |-> "obj", try |-> t, catch |-> c], tryCatchObj(t, c))

\* tryPromise(fn) / tryPromise({ try, catch }) up to its return.
StartTryPromise(i) ==
  LET t == tryPromise(i.try)
  IN /\ op' = "tryPromise"
     /\ inp' = i
     /\ res' = t.res
     /\ wrapped' = t.wrapped
     /\ chained' = t.chained
     /\ returned' = t.returned
     /\ jobs' = t.jobs

CallTryPromiseFn ==
  \E fn \in PromiseThunks("fn") :
    /\ op = "idle"
    /\ StartTryPromise([form |-> "fn", try |-> fn])

CallTryPromiseObj ==
  \E t \in PromiseThunks("try"), c \in Mappers :
    /\ op = "idle"
    /\ StartTryPromise([form |-> "obj", try |-> t, catch |-> c])

\* The wrapped computation completes: its pending promise fulfils or rejects.
Settle ==
  /\ wrapped.st = "pending"
  /\ \E p \in {Fulfilled(v) : v \in Vals} \cup {Rejected(e) : e \in Errors} :
       wrapped' = p
  /\ jobs' = Append(jobs, "then")
  /\ UNCHANGED <<op, inp, res, chained, returned>>

\* The reaction job of wrapped.then(Ok).
RunThen ==
  /\ jobs # <<>>
  /\ Head(jobs) = "then"
  /\ chained' = ThenOk(wrapped)
  /\ jobs' = Append(Tail(jobs), "catch")
  /\ UNCHANGED <<op, inp, res, wrapped, returned>>

\* The reaction job of chained.catch(...).
RunCatch ==
  /\ jobs # <<>>
  /\ Head(jobs) = "catch"
  /\ LET c == IF inp.form = "fn" THEN CatchFn(chained)
              ELSE CatchObj(inp.catch, chained)
     IN /\ returned' = c.promise
        /\ res' = [res EXCEPT !.calls = @ \o c.calls]
  /\ jobs' = Tail(jobs)
  /\ UNCHANGED <<op, inp, wrapped, chained>>

\* The caller has its result (a return, a throw or a settled promise) and
\* goes on to its next call.
Discard ==
  /\ op # "idle"
  /\ wrapped.st # "pending"
  /\ jobs = <<>>
  /\ op' = "idle"
  /\ inp' = NoInput
  /\ res' = Ret(Undefined)
  /\ wrapped' = NoPromise
  /\ chained' = NoPromise
  /\ returned' = NoPromise
  /\ jobs' = <<>>

Next ==
  \/ CallOptionXor
  \/ CallOptionTranspose
  \/ CallOptionFlatten
  \/ CallOptionZip
  \/ CallOptionZipWith
  \/ CallOptionUnzip
  \/ CallOptionOrElse
  \/ CallOptionUnwrapOrElse
  \/ CallOptionOkOrElse
  \/ CallOptionMapOrElse
  \/ CallOptionMapOr
  \/ CallOptionUnwrap
  \/ CallOptionExpect
  \/ CallOptionIsSome
  \/ CallOptionIsNone
  \/ CallOptionIsSomeAnd
  \/ CallOptionIsNoneOr
  \/ CallOptionPredicates
  \/ CallDurationDivide
  \/ CallDurationDivideMap
  \/ CallDurationDivideAndThen
  \/ CallI8
  \/ CallI16
  \/ CallI32
  \/ CallU8
  \/ CallU16
  \/ CallU32
  \/ CallOptionAnd
  \/ CallOptionOr
  \/ CallOptionOkOr
  \/ CallOptionUnwrapOr
  \/ CallOptionEagerLazy
  \/ CallOptionAndThen
  \/ CallOptionMap
  \/ CallOptionFilter
  \/ CallOptionInspect
  \/ CallResultOrElse
  \/ CallResultUnwrapOrElse
  \/ CallResultMapOr
  \/ CallResultMapOrElse
  \/ CallResultAndThen
  \/ CallResultMap
  \/ CallResultInspect
  \/ CallResultIsOk
  \/ CallResultIsErr
  \/ CallResultIsOkAnd
  \/ CallResultIsErrAnd
  \/ CallResultAnd
  \/ CallResultOr
  \/ CallResultExpect
  \/ CallResultExpectErr
  \/ CallResultFlatten
  \/ CallResultInspectErr
  \/ CallResultMapErr
  \/ CallResultUnwrap
  \/ CallResultUnwrapErr
  \/ CallResultUnwrapOr
  \/ CallPipeOrElse
  \/ CallPipe
  \/ CallPipeline
  \/ StartResultChain
  \/ StartOptionChain
  \/ StepResultChain
  \/ StepOptionChain
  \/ CallOptionFlattenTwice
  \/ CallOptionUnzipZip
  \/ CallPipeFlatten
  \/ CallPipeZipUnzip
  \/ CallTryCatchFn
  \/ CallTryCatchObj
  \/ CallTryPromiseFn
  \/ CallTryPromiseObj
  \/ Settle
  \/ RunThen
  \/ RunCatch
  \/ Discard

Spec == Init /\ [][Next]_vars

\* The event loop always drains the microtask queue.
FairSpec == Spec /\ WF_vars(RunThen) /\ WF_vars(RunCatch)

-----------------------------------------------------------------------------
(* Properties *)

\* x and y are the same object (toBe).
Same(x, y) == x.ref = y.ref /\ x.tag = y.tag /\ x = y

\* How many times the callback passed as `id` was called.
Count(id) == Cardinality({i \in DOMAIN res.calls : res.calls[i].fn = id})

\* C7: xor(other)(self) is a Some exactly when exactly one of self and other
\* is a Some, it is then that very operand, and it is None when both are
\* Some and when both are None.
C7_XorExactlyOne ==
  op = "Option.xor" =>
    /\ ~res.thrown
    /\ (res.val.tag = "Some") <=> (isSome(inp.self) # isSome(inp.other))
    /\ (isSome(inp.self) /\ ~isSome(inp.other)) => Same(res.val, inp.self)
    /\ (~isSome(inp.self) /\ isSome(inp.other)) => Same(res.val, inp.other)
    /\ (isSome(inp.self) <=> isSome(inp.other)) => Same(res.val, None)

C7_Witness ==
  /\ op = "Option.xor"
  /\ inp.self.tag = "Some"
  /\ inp.other.tag = "Some"
  /\ inp.self.value # inp.other.value
  /\ res.val.tag = "None"

\* C8: transpose maps Some(Ok(v)) to Ok(Some(v)), Some(Err(e)) to Err(e) and
\* None to Ok(None); the result is an Err only when the receiver holds an
\* Err, and it carries that error.
C8_Transpose ==
  op = "Option.transpose" =>
    /\ ~res.thrown
    /\ res.val.tag \in {"Ok", "Err"}
    /\ (res.val.tag = "Err") <=> (inp.self.tag = "Some" /\ inp.self.value.tag = "Err")
    /\ res.val.tag = "Err" => res.val.error = inp.self.value.error
    /\ (inp.self.tag = "Some" /\ inp.self.value.tag = "Ok") =>
         Strip(res.val) = Ok(Some(inp.self.value.value))
    /\ inp.self.tag = "None" => Strip(res.val) = Ok(None)

C8_Witness ==
  /\ op = "Option.transpose"
  /\ inp.self.tag = "Some"
  /\ inp.self.value.tag = "Err"
  /\ res.val.tag = "Err"
  /\ res.val.error = inp.self.value.error

\* C9: zip(other)(self) is Some([s, o]) exactly when both are Some, else
\* None; zipWith likewise with fn(s, o), fn being called only when both are
\* Some; unzip(zip(Some(b))(Some(a))) is [Some(a), Some(b)] and unzip(None)
\* is [None, None].
C9_ZipUnzip ==
  /\ op = "Option.zip" =>
       IF isSome(inp.self) /\ isSome(inp.other)
       THEN Strip(res.val) = Some(Arr(<<inp.self.value, inp.other.value>>))
       ELSE Same(res.val, None)
  /\ op = "Option.zipWith" =>
       IF isSome(inp.self) /\ isSome(inp.other)
       THEN /\ res.calls = <<[fn |-> "fn", args |-> <<inp.self.value, inp.other.value>>]>>
            /\ inp.fn.kind # "throw" =>
                 /\ ~res.thrown
                 /\ Strip(res.val) =
                      Some(Apply(inp.fn, <<inp.self.value, inp.other.value>>))
       ELSE res.calls = <<>> /\ ~res.thrown /\ Same(res.val, None)
  /\ op = "Option.unzip" =>
       IF isSome(inp.self)
       THEN res.val = Arr(<<Some(inp.self.value.items[1]),
                            Some(inp.self.value.items[2])>>)
       ELSE res.val = Arr(<<None, None>>)
  /\ op = "Option.zip.unzip" =>
       IF isSome(inp.self) /\ isSome(inp.other)
       THEN res.val = Arr(<<Some(inp.self.value), Some(inp.other.value)>>)
       ELSE res.val = Arr(<<None, None>>)

C9_Witness ==
  /\ op = "Option.zip.unzip"
  /\ isSome(inp.self)
  /\ isSome(inp.other)
  /\ inp.self.value # inp.other.value
  /\ res.val = Arr(<<Some(inp.self.value), Some(inp.other.value)>>)

\* C10: flatten removes exactly one nesting level per call: flatten(Some(inner))
\* is inner itself, flatten(Some(None)) and flatten(None) are None,
\* flatten(Some(Some(Some(x)))) is Some(Some(x)) and flatten applied twice to
\* it is Some(x).
C10_FlattenOneLevel ==
  /\ op = "Option.flatten" =>
       /\ ~res.thrown
       /\ IF inp.self.tag = "Some"
          THEN Same(res.val, inp.self.value)
          ELSE Same(res.val, None)
  /\ (op = "Option.flatten.flatten" /\ inp.self.tag = "Some"
        /\ inp.self.value.tag = "Some" /\ inp.self.value.value.tag = "Some") =>
       /\ ~res.thrown
       /\ Same(res.val, inp.self.value.value)
       /\ Strip(res.val) = Some(inp.self.value.value.value)

C10_Witness ==
  /\ op = "Option.flatten.flatten"
  /\ inp.self.tag = "Some"
  /\ inp.self.value.tag = "Some"
  /\ inp.self.value.value.tag = "Some"
  /\ res.val.tag = "Some"
  /\ res.val.value \in Vals

\* The lazily evaluated closures: <<combinator, parameter, the receiver's
\* variant on which the closure is evaluated>>.
LazyClosures ==
  { <<"Option.orElse", "fn", "None">>,
    <<"Option.unwrapOrElse", "fn", "None">>,
    <<"Option.okOrElse", "errFn", "None">>,
    <<"Option.mapOrElse", "defaultFn", "None">>,
    <<"Result.orElse", "op", "Err">>,
    <<"Result.unwrapOrElse", "fn", "Err">>,
    <<"Result.mapOrElse", "fnWhenErr", "Err">>,
    <<"Option.andThen", "fn", "Some">>,
    <<"Option.map", "fn", "Some">>,
    <<"Option.filter", "predicate", "Some">>,
    <<"Option.inspect", "fn", "Some">>,
    <<"Option.mapOrElse", "fn", "Some">>,
    <<"Result.andThen", "fn", "Ok">>,
    <<"Result.map", "fn", "Ok">>,
    <<"Result.inspect", "fn", "Ok">>,
    <<"Result.mapOrElse", "fn", "Ok">> }

\* C4: a lazy combinator evaluates its closure only on the relevant branch:
\* zero times on the other variant, exactly once on the relevant one.
C4_LazyOnlyOnBranch ==
  \A t \in LazyClosures :
    op = t[1] => Count(t[2]) = (IF inp.self.tag = t[3] THEN 1 ELSE 0)

C4_Witness ==
  /\ op = "Option.mapOrElse"
  /\ inp.self.tag = "Some"
  /\ Count("defaultFn") = 0
  /\ Count("fn") = 1

\* The combinators with an "Else" or "Then" suffix.
ElseThenOps ==
  {"Option.andThen", "Option.orElse", "Option.mapOrElse", "Option.unwrapOrElse",
   "Option.okOrElse", "Result.andThen", "Result.orElse", "Result.mapOrElse",
   "Result.unwrapOrElse"}

\* C5 as stated: every closure of an "Else"/"Then" combinator is invoked with
\* no arguments.
C5_ZeroArgumentClosures ==
  op \in ElseThenOps =>
    \A i \in DOMAIN res.calls : res.calls[i].args = <<>>

\* What the closure passed as `id` to combinator o is called with.
ClosureArgs(o, id) ==
  CASE o = "Option.mapOrElse" /\ id = "defaultFn" -> <<>>
    [] o = "Option.okOrElse" -> <<>>
    [] o \in {"Option.orElse", "Option.unwrapOrElse"} -> <<inp.self>>
    [] o \in {"Option.andThen", "Result.andThen"} -> <<inp.self.value>>
    [] o \in {"Option.mapOrElse", "Result.mapOrElse"} /\ id = "fn" -> <<inp.self.value>>
    [] o \in {"Result.orElse", "Result.unwrapOrElse"} -> <<inp.self.error>>
    [] o = "Result.mapOrElse" /\ id = "fnWhenErr" -> <<inp.self.error>>

\* C5, amended: only the default closure of Option.mapOrElse and the closure
\* of Option.okOrElse are invoked with no arguments; the closures of
\* Option.orElse and Option.unwrapOrElse are called by the match fallback with
\* the (None) receiver; andThen and the value closure of mapOrElse receive the
\* contained value; Result.orElse, Result.unwrapOrElse and the error closure
\* of Result.mapOrElse receive the contained error.
C5_ClosureArguments ==
  op \in ElseThenOps =>
    \A i \in DOMAIN res.calls :
      LET expected == ClosureArgs(op, res.calls[i].fn)
      IN /\ Len(res.calls[i].args) = Len(expected)
         /\ res.calls[i].args = expected

C5_Witness ==
  /\ op = "Result.unwrapOrElse"
  /\ inp.self.tag = "Err"
  /\ res.calls = <<[fn |-> "fn", args |-> <<inp.self.error>>]>>
  /\ res.val = Num(inp.self.error.n + 1)

\* C6: Result.orElse(op) on Err(e) returns op(e), op receiving the error, and
\* on an Ok returns the receiver without calling op; so with sq(x) = Ok(x*x),
\* pipe(Err(e), orElse(sq), orElse(sq)) is Ok(e*e) with sq called once, and
\* pipe(Ok(v), orElse(sq), orElse(sq)) is the original Ok(v), sq never called.
C6_ResultOrElse ==
  /\ op = "Result.orElse" =>
       IF inp.self.tag = "Err"
       THEN /\ res.calls = <<[fn |-> "op", args |-> <<inp.self.error>>]>>
            /\ res.thrown = (inp.op.kind = "throw")
            /\ inp.op.kind # "throw" => res.val = Apply(inp.op, <<inp.self.error>>)
       ELSE /\ ~res.thrown
            /\ Same(res.val, inp.self)
            /\ res.calls = <<>>
  /\ (op = "pipe.orElse" /\ Len(inp.ops) = 2
        /\ inp.ops[1].kind = "sq" /\ inp.ops[2].kind = "sq") =>
       /\ ~res.thrown
       /\ IF inp.self.tag = "Err"
          THEN /\ Strip(res.val) = Ok(Num(inp.self.error.n * inp.self.error.n))
               /\ res.calls = <<[fn |-> "op", args |-> <<inp.self.error>>]>>
          ELSE /\ Same(res.val, inp.self)
               /\ res.calls = <<>>

C6_Witness ==
  /\ op = "pipe.orElse"
  /\ Len(inp.ops) = 2
  /\ inp.ops[1].kind = "sq"
  /\ inp.ops[2].kind = "sq"
  /\ inp.self.tag = "Err"
  /\ inp.self.error = Num(2)
  /\ res.val.tag = "Ok"
  /\ res.val.value = Num(4)
  /\ Len(res.calls) = 1

\* C1 as stated: a failure raised or rejected by the wrapped computation is
\* captured, never re-raised: tryCatch does not throw, tryPromise neither
\* throws synchronously nor returns a promise that rejects (the catch mapping,
\* if any, returning normally).
C1_NeverReRaised ==
  (op \in {"tryCatch", "tryPromise"}
     /\ (inp.form = "obj" => inp.catch.kind # "throw")) =>
    /\ ~res.thrown
    /\ returned.st # "rejected"

\* C2: tryCatch returns Ok(r) when the computation returns r, without calling
\* the catch mapping; when it throws X the plain form returns
\* Err(UnknownException{error: X}) and the {try, catch} form Err(catch(X)).
C2_TryCatch ==
  op = "tryCatch" =>
    /\ inp.try.kind = "const" =>
         /\ ~res.thrown
         /\ Strip(res.val) = Ok(inp.try.ret)
         /\ res.calls = <<[fn |-> inp.try.id, args |-> <<>>]>>
    /\ (inp.try.kind = "throw" /\ inp.form = "fn") =>
         /\ ~res.thrown
         /\ res.val.tag = "Err"
         /\ res.val.error = UnknownException(inp.try.err)
         /\ res.calls = <<[fn |-> "fn", args |-> <<>>]>>
    /\ (inp.try.kind = "throw" /\ inp.form = "obj" /\ inp.catch.kind # "throw") =>
         /\ ~res.thrown
         /\ res.val.tag = "Err"
         /\ res.val.error = Apply(inp.catch, <<inp.try.err>>)
         /\ res.calls = <<[fn |-> "try", args |-> <<>>],
                          [fn |-> "catch", args |-> <<inp.try.err>>]>>

C2_Witness ==
  /\ op = "tryCatch"
  /\ inp.form = "obj"
  /\ inp.try.kind = "throw"
  /\ inp.try.err = Error("oh")
  /\ inp.catch.kind = "mapped"
  /\ res.val.tag = "Err"
  /\ res.val.error = Str("mapped oh")

\* The state part of C3: during a tryPromise call that returned a promise,
\* the wrapped computation has been invoked exactly once, the returned
\* promise is settled only if the wrapped promise is, and it is then
\* fulfilled with Ok(v) / Err(UnknownException{error: X}) / Err(catch(X)).
C3_Settlement ==
  (op = "tryPromise" /\ ~res.thrown) =>
    /\ Count(inp.try.id) = 1
    /\ Settled(returned) => Settled(wrapped)
    /\ (Settled(returned) /\ wrapped.st = "fulfilled") =>
         /\ returned.st = "fulfilled"
         /\ Strip(returned.value) = Ok(wrapped.value)
         /\ Count("catch") = 0
    /\ (Settled(returned) /\ wrapped.st = "rejected" /\ inp.form = "fn") =>
         /\ returned.st = "fulfilled"
         /\ returned.value.tag = "Err"
         /\ returned.value.error = UnknownException(wrapped.reason)
    /\ (Settled(returned) /\ wrapped.st = "rejected" /\ inp.form = "obj"
          /\ inp.catch.kind # "throw") =>
         /\ returned.st = "fulfilled"
         /\ returned.value.tag = "Err"
         /\ returned.value.error = Apply(inp.catch, <<wrapped.reason>>)

\* C3: tryPromise invokes the wrapped computation exactly once, its promise
\* settles only after the wrapped promise, with Ok(v) on fulfilment and the
\* default or mapped Err on rejection, and it does not stay pending once the
\* wrapped promise has settled.
C3_TryPromiseSettles ==
  /\ []C3_Settlement
  /\ (op = "tryPromise" /\ Settled(wrapped)) ~> Settled(returned)

C3_Witness ==
  /\ op = "tryPromise"
  /\ inp.form = "obj"
  /\ inp.try.kind = "const"
  /\ inp.try.ret.st = "pending"
  /\ inp.catch.kind = "mapped"
  /\ wrapped = Rejected(Error("oh"))
  /\ returned.st = "fulfilled"
  /\ returned.value.error = Str("mapped oh")

\* C11: Option.mapOr(default, fn) and Option.mapOrElse(defaultFn, fn) return
\* a Some for every receiver: Some(fn(v)) on Some(v), Some(default) /
\* Some(defaultFn()) on None; never None and never a bare value.
C11_OptionMapOrWraps ==
  /\ op = "Option.mapOr" =>
       /\ ~res.thrown
       /\ res.val.tag = "Some"
       /\ res.val.ref = "fresh"
       /\ res.val.value = (IF inp.self.tag = "Some"
                           THEN Apply(inp.fn, <<inp.self.value>>)
                           ELSE inp.defaultValue)
  /\ op = "Option.mapOrElse" =>
       /\ ~res.thrown
       /\ res.val.tag = "Some"
       /\ res.val.ref = "fresh"
       /\ res.val.value = (IF inp.self.tag = "Some"
                           THEN Apply(inp.fn, <<inp.self.value>>)
                           ELSE Apply(inp.defaultFn, <<>>))

C11_Witness ==
  /\ op = "Option.mapOr"
  /\ inp.self.tag = "None"
  /\ inp.defaultValue = Num(2)
  /\ res.val = Some(Num(2))

\* C12: Result.mapOr(default, f) returns the bare f(x) on Ok(x) and the bare
\* default on Err(e); Result.mapOrElse returns f(x) on Ok(x) and the fallback
\* closure's result on Err(e); the value is not wrapped in Ok, Err or Some.
C12_ResultMapOrBare ==
  /\ op = "Result.mapOr" =>
       /\ ~res.thrown
       /\ res.val.tag \notin {"Ok", "Err", "Some"}
       /\ res.val = (IF inp.self.tag = "Ok"
                     THEN Apply(inp.fn, <<inp.self.value>>)
                     ELSE inp.defaultValue)
  /\ op = "Result.mapOrElse" =>
       /\ ~res.thrown
       /\ res.val.tag \notin {"Ok", "Err", "Some"}
       /\ res.val = (IF inp.self.tag = "Ok"
                     THEN Apply(inp.fn, <<inp.self.value>>)
                     ELSE Apply(inp.fnWhenErr, <<inp.self.error>>))

C12_Witness ==
  /\ op = "Result.mapOr"
  /\ inp.self.tag = "Err"
  /\ inp.defaultValue = Num(0)
  /\ inp.self.error # Num(0)
  /\ res.val = Num(0)

\* C13: Option.unwrap(Some(x)) returns x and Option.unwrap(None) raises an
\* error whose message is "Called `Option.unwrap()` on a `None` value";
\* Option.expect(msg) returns x on Some(x) and on None raises an error whose
\* message is msg verbatim.
C13_OptionUnwrapExpect ==
  /\ op = "Option.unwrap" =>
       IF inp.self.tag = "Some"
       THEN ~res.thrown /\ res.val = inp.self.value
       ELSE /\ res.thrown
            /\ res.val.tag = "Error"
            /\ res.val.message = "Called 'Option.unwrap()' on a 'None' value"
  /\ op = "Option.expect" =>
       IF inp.self.tag = "Some"
       THEN ~res.thrown /\ res.val = inp.self.value
       ELSE /\ res.thrown
            /\ res.val.tag = "Error"
            /\ res.val.message = inp.msg

C13_Witness ==
  /\ op = "Option.expect"
  /\ inp.self.tag = "None"
  /\ inp.msg = "oh no"
  /\ res.thrown
  /\ res.val = Error("oh no")

\* The fields of a call's input that hold callbacks.
CallbackFields == {"fn", "op", "fnWhenErr", "predicate", "defaultFn", "errFn"}

\* The failure that left the call was thrown by a callback (the last one
\* called), not by the combinator.
RaisedByCallback ==
  /\ res.thrown
  /\ res.calls # <<>>
  /\ \E f \in CallbackFields \cap DOMAIN inp :
       /\ inp[f].kind = "throw"
       /\ inp[f].id = res.calls[Len(res.calls)].fn
       /\ res.val = inp[f].err

\* The Result combinators other than unwrap, expect, unwrapErr, expectErr.
OtherResultOps ==
  {"Result.isOk", "Result.isOkAnd", "Result.isErr", "Result.isErrAnd",
   "Result.and", "Result.andThen", "Result.flatten", "Result.inspect",
   "Result.inspectErr", "Result.map", "Result.mapErr", "Result.mapOr",
   "Result.mapOrElse", "Result.or", "Result.orElse", "Result.unwrapOr",
   "Result.unwrapOrElse"}

\* C14: in the Result algebra unwrap and expect return the value on Ok and
\* raise on Err, unwrapErr and expectErr return the error on Err and raise on
\* Ok; the raised message is the fixed text or the caller's message; no other
\* Result combinator raises by itself (a failure leaving it was thrown by a
\* callback).
C14_ResultRaises ==
  /\ op = "Result.unwrap" =>
       IF inp.self.tag = "Ok"
       THEN ~res.thrown /\ res.val = inp.self.value
       ELSE /\ res.thrown
            /\ res.val.tag = "Error"
            /\ res.val.message = "Called 'unwrap' on an 'Err' value"
  /\ op = "Result.expect" =>
       IF inp.self.tag = "Ok"
       THEN ~res.thrown /\ res.val = inp.self.value
       ELSE /\ res.thrown
            /\ res.val.tag = "Error"
            /\ res.val.message = inp.msg
  /\ op = "Result.unwrapErr" =>
       IF inp.self.tag = "Err"
       THEN ~res.thrown /\ res.val = inp.self.error
       ELSE /\ res.thrown
            /\ res.val.tag = "Error"
            /\ res.val.message = "Called 'unwrapErr' on an 'Ok' value"
  /\ op = "Result.expectErr" =>
       IF inp.self.tag = "Err"
       THEN ~res.thrown /\ res.val = inp.self.error
       ELSE /\ res.thrown
            /\ res.val.tag = "Error"
            /\ res.val.message = inp.msg
  /\ (op \in OtherResultOps /\ res.thrown) => RaisedByCallback

C14_Witness ==
  /\ op = "Result.unwrap"
  /\ inp.self.tag = "Err"
  /\ res.thrown
  /\ res.val = Error("Called 'unwrap' on an 'Err' value")

\* Every call of one Option combinator, and the two compositions of them.
OptionOps ==
  {"Option.and", "Option.andThen", "Option.expect", "Option.filter",
   "Option.flatten", "Option.inspect", "Option.isNone", "Option.isNoneOr",
   "Option.isSome", "Option.isSomeAnd", "Option.map", "Option.mapOr",
   "Option.mapOrElse", "Option.okOr", "Option.okOrElse", "Option.or",
   "Option.orElse", "Option.transpose", "Option.unwrap", "Option.unwrapOr",
   "Option.unwrapOrElse", "Option.unzip", "Option.xor", "Option.zip",
   "Option.zipWith", "Option.flatten.flatten", "Option.zip.unzip"}

\* C15: no Option combinator throws except unwrap and expect on a None
\* receiver, given callbacks that do not throw (a failure leaving another
\* combinator was thrown by a callback); unwrapOr(default) and
\* unwrapOrElse(fn) never fail and return the contained value on Some and the
\* default / the result of fn on None.
C15_OptionNeverThrows ==
  /\ (op \in OptionOps /\ res.thrown) =>
       \/ op \in {"Option.unwrap", "Option.expect"} /\ inp.self.tag = "None"
       \/ op \notin {"Option.unwrap", "Option.expect"} /\ RaisedByCallback
  /\ op = "Option.unwrapOr" =>
       /\ ~res.thrown
       /\ res.val = (IF inp.self.tag = "Some" THEN inp.self.value
                     ELSE inp.defaultValue)
  /\ (op = "Option.unwrapOrElse" /\ inp.fn.kind # "throw") =>
       /\ ~res.thrown
       /\ res.val = (IF inp.self.tag = "Some" THEN inp.self.value
                     ELSE inp.fn.ret)

C15_Witness ==
  /\ op = "Option.unwrapOr"
  /\ inp.self.tag = "None"
  /\ inp.defaultValue = Num(1)
  /\ ~res.thrown
  /\ res.val = Num(1)

\* fn(...f1(x)...): the nested application of the functions fns to x.
RECURSIVE Compose(_, _)
Compose(x, fns) ==
  IF fns = <<>> THEN x
  ELSE Apply(fns[Len(fns)], <<Compose(x, SubSeq(fns, 1, Len(fns) - 1))>>)

\* The positions of the functions of the chain that raise.
Raising(fns) == {i \in DOMAIN fns : fns[i].kind = "throw"}

\* C16: pipe applies its functions left to right, each receiving the previous
\* step's output exactly once: pipe(x, f1, ..., fn) is fn(...f1(x)...), so
\* pipe(1, addOne, double) is 4, and pipe(x) is x.
C16_PipeLeftToRight ==
  (op = "pipe" /\ Raising(inp.fns) = {}) =>
    /\ ~res.thrown
    /\ res.val = Compose(inp.self, inp.fns)
    /\ Len(res.calls) = Len(inp.fns)
    /\ \A i \in DOMAIN inp.fns :
         res.calls[i] = [fn   |-> inp.fns[i].id,
                         args |-> <<Compose(inp.self, SubSeq(inp.fns, 1, i - 1))>>]
    /\ inp.fns = <<>> => res.val = inp.self
    /\ (inp.self = Num(1) /\ Len(inp.fns) = 2 /\ inp.fns[1].kind = "inc"
          /\ inp.fns[2].kind = "double") => res.val = Num(4)

C16_Witness ==
  /\ op = "pipe"
  /\ inp.self = Num(1)
  /\ Len(inp.fns) = 2
  /\ inp.fns[1].kind = "inc"
  /\ inp.fns[2].kind = "double"
  /\ res.val = Num(4)
  /\ res.calls = <<[fn |-> "f1", args |-> <<Num(1)>>],
                   [fn |-> "f2", args |-> <<Num(2)>>]>>

\* C17: pipe is fail-fast: when step k raises, the failure leaves pipe, no
\* step after k is invoked and no partial result is returned.
C17_PipeFailFast ==
  (op = "pipe" /\ Raising(inp.fns) # {}) =>
    LET k == CHOOSE i \in Raising(inp.fns) : \A j \in Raising(inp.fns) : i <= j
    IN /\ res.thrown
       /\ res.val = inp.fns[k].err
       /\ Len(res.calls) = k
       /\ \A i \in 1..k : res.calls[i].fn = inp.fns[i].id

C17_Witness ==
  /\ op = "pipe"
  /\ Len(inp.fns) = 3
  /\ inp.fns[1].kind = "inc"
  /\ inp.fns[2].kind = "throw"
  /\ inp.fns[3].kind = "double"
  /\ res.thrown
  /\ res.val = Error("oh")
  /\ Len(res.calls) = 2

\* C18: the end-to-end pipeline pipe(first, zipWith(last, combine),
\* map(Result.map(toUpper)), map(Result.ok), flatten) yields Some("JD") for
\* first = Some("john") and last = Some("doe"), and None when either input is
\* None, without calling combine.
C18_Pipeline ==
  op = "pipeline" =>
    /\ (inp.first.tag = "Some" /\ inp.first.value = Text(<<"j", "o", "h", "n">>)
          /\ inp.last.tag = "Some" /\ inp.last.value = Text(<<"d", "o", "e">>)) =>
         /\ ~res.thrown
         /\ Strip(res.val) = Some(Text(<<"J", "D">>))
    /\ (inp.first.tag = "None" \/ inp.last.tag = "None") =>
         /\ ~res.thrown
         /\ Same(res.val, None)
         /\ Count("combine") = 0

\* The Option / Result instances of a value: itself and those it holds.
RECURSIVE Instances(_)
Instances(v) ==
  IF "ref" \in DOMAIN v
  THEN {v} \cup (IF "value" \in DOMAIN v THEN Instances(v.value) ELSE {})
  ELSE {}

\* The instances that existed before the call: the receiver, the arguments,
\* what they hold, and what the callbacks close over.
InputInstances ==
  UNION {Instances(inp[f]) : f \in {"self", "other", "first", "last"} \cap DOMAIN inp}
    \cup UNION {Instances(inp[f].ret) :
                 f \in {g \in CallbackFields \cap DOMAIN inp : inp[g].kind = "const"}}

\* An instance as the assignments ws leave it.
RECURSIVE Written(_, _)
Written(obj, ws) ==
  IF ws = <<>> THEN obj
  ELSE Written(IF Head(ws).ref = obj.ref
               THEN [obj EXCEPT ![Head(ws).field] = Head(ws).val]
               ELSE obj,
               Tail(ws))

\* The calls of Option and Result combinators, alone or in a chain.
CombinatorOps ==
  OptionOps \cup OtherResultOps
    \cup {"Result.unwrap", "Result.expect", "Result.unwrapErr", "Result.expectErr",
          "pipe.orElse", "pipe.flatten", "pipe.zip.unzip", "pipeline"}

\* The receiver and the argument instances of the call.
ReceiverAndArguments ==
  {inp[f] : f \in {"self", "other", "first", "last"} \cap DOMAIN inp}

\* The instances the receiver and the arguments hold inside them.
Held == (UNION {Instances(x) : x \in ReceiverAndArguments}) \ ReceiverAndArguments

\* The instances the callbacks of the call return.
CallbackResults ==
  UNION {Instances(inp[f].ret) :
           f \in {g \in CallbackFields \cap DOMAIN inp : inp[g].kind = "const"}}

\* The calls whose result is the instance the receiver holds.
FlattenOps == {"Option.flatten", "Result.flatten", "Option.flatten.flatten", "pipe.flatten"}

\* The calls whose result is what a callback returned.
CallbackResultOps ==
  {"Option.andThen", "Option.orElse", "Result.andThen", "Result.orElse", "pipe.orElse"}

ResultParts ==
  IF res.val.tag = "Array" THEN {res.val.items[i] : i \in DOMAIN res.val.items}
  ELSE {res.val}

\* C20: every None an Option combinator produces is the exported None, so
\* comparing a result with None by identity and by structure agree.
C20_NoneShared ==
  (op \in OptionOps /\ ~res.thrown) =>
    \A p \in ResultParts :
      "ref" \in DOMAIN p =>
        /\ p.tag = "None" => p.ref = "None"
        /\ (Strip(p) = Strip(None)) <=> (p = None)

C20_Witness ==
  /\ op = "Option.filter"
  /\ inp.self.tag = "Some"
  /\ inp.predicate.k # inp.self.value
  /\ res.val = None

\* C21: in the pass-through variant the Result combinators return the
\* receiver itself: on Err, and(other), andThen(fn), map(fn) and flatten
\* return that same Err; on Ok, or(other), orElse(op) and mapErr(fn) return
\* that same Ok; and(other) on Ok and or(other) on Err return other.
C21_ResultPassThrough ==
  /\ (op \in {"Result.and", "Result.andThen", "Result.map", "Result.flatten"}
        /\ inp.self.tag = "Err") =>
       /\ ~res.thrown
       /\ Same(res.val, inp.self)
       /\ res.val.error = inp.self.error
       /\ res.calls = <<>>
  /\ (op \in {"Result.or", "Result.orElse", "Result.mapErr"}
        /\ inp.self.tag = "Ok") =>
       /\ ~res.thrown
       /\ Same(res.val, inp.self)
       /\ res.calls = <<>>
  /\ (op = "Result.and" /\ inp.self.tag = "Ok") => Same(res.val, inp.other)
  /\ (op = "Result.or" /\ inp.self.tag = "Err") => Same(res.val, inp.other)

C21_Witness ==
  /\ op = "Result.map"
  /\ inp.self.tag = "Err"
  /\ res.val.ref = "self"
  /\ res.val = inp.self

\* C22: and(other)(self) is other when self is Some and None when self is
\* None; or(other)(self) is self itself when self is Some and other when self
\* is None, for all four variant combinations.
C22_OptionAndOr ==
  /\ op = "Option.and" =>
       /\ ~res.thrown
       /\ IF inp.self.tag = "Some" THEN Same(res.val, inp.other)
          ELSE Same(res.val, None)
  /\ op = "Option.or" =>
       /\ ~res.thrown
       /\ IF inp.self.tag = "Some" THEN Same(res.val, inp.self)
          ELSE Same(res.val, inp.other)

C22_Witness ==
  /\ op = "Option.or"
  /\ inp.self.tag = "Some"
  /\ inp.other.tag = "Some"
  /\ inp.other.value # inp.self.value
  /\ res.val = inp.self

\* C23: each eager Option combinator gives the same result as its lazy
\* counterpart applied to a closure returning the same value: and / andThen,
\* or / orElse, unwrapOr / unwrapOrElse, okOr / okOrElse, mapOr / mapOrElse.
C23_EagerEqualsLazy ==
  op = "Option.eager.lazy" =>
    /\ ~res.thrown
    /\ res.val.items[1] = res.val.items[2]

C23_Witness ==
  /\ op = "Option.eager.lazy"
  /\ inp.pair = "okOr"
  /\ inp.self.tag = "Some"
  /\ res.val.items[1] = Ok(inp.self.value)
  /\ res.val.items[2] = Ok(inp.self.value)

\* C24: okOr(err) and okOrElse(errFn) turn Some(v) into Ok(v) with the
\* payload unchanged and None into Err(err), respectively Err(errFn()); the
\* result is Ok exactly when the receiver is Some.
C24_OkOrConversion ==
  /\ op = "Option.okOr" =>
       /\ ~res.thrown
       /\ isOk(res.val) <=> isSome(inp.self)
       /\ isSome(inp.self) => res.val = Ok(inp.self.value)
       /\ isNone(inp.self) => res.val = Err(inp.err)
  /\ op = "Option.okOrElse" =>
       /\ ~res.thrown
       /\ isOk(res.val) <=> isSome(inp.self)
       /\ isSome(inp.self) => res.val = Ok(inp.self.value) /\ res.calls = <<>>
       /\ isNone(inp.self) =>
            /\ res.val = Err(Apply(inp.errFn, <<>>))
            /\ res.calls = <<[fn |-> inp.errFn.id, args |-> <<>>]>>

C24_Witness ==
  /\ op = "Option.okOrElse"
  /\ isSome(inp.self)
  /\ res.val = Ok(inp.self.value)
  /\ res.calls = <<>>

\* C25: filter(pred) returns the receiver itself when it is Some(v) and
\* pred(v) is true, None when pred(v) is false, and None for a None receiver
\* without calling pred; pred is called at most once.
C25_Filter ==
  op = "Option.filter" =>
    /\ ~res.thrown
    /\ Len(res.calls) <= 1
    /\ isSome(inp.self) =>
         /\ res.calls = <<[fn |-> inp.predicate.id, args |-> <<inp.self.value>>]>>
         /\ IF Truthy(Apply(inp.predicate, <<inp.self.value>>))
            THEN Same(res.val, inp.self)
            ELSE Same(res.val, None)
    /\ isNone(inp.self) => Same(res.val, None) /\ res.calls = <<>>

C25_Witness ==
  /\ op = "Option.filter"
  /\ isSome(inp.self)
  /\ Truthy(Apply(inp.predicate, <<inp.self.value>>))
  /\ res.val.ref = "self"
  /\ res.val = inp.self
  /\ Len(res.calls) = 1

\* C26: inspect and inspectErr always return the original instance, whatever
\* the callback returns. Option.inspect calls fn exactly once with the value
\* on Some and never on None; Result.inspect calls fn with the value only on
\* Ok; Result.inspectErr calls fn with the error only on Err.
C26_InspectFrame ==
  /\ op \in {"Option.inspect", "Result.inspect", "Result.inspectErr"} =>
       /\ ~res.thrown
       /\ Same(res.val, inp.self)
       /\ res.writes = <<>>
  /\ op = "Option.inspect" =>
       res.calls = IF isSome(inp.self)
                   THEN <<[fn |-> inp.fn.id, args |-> <<inp.self.value>>]>>
                   ELSE <<>>
  /\ op = "Result.inspect" =>
       res.calls = IF isOk(inp.self)
                   THEN <<[fn |-> inp.fn.id, args |-> <<inp.self.value>>]>>
                   ELSE <<>>
  /\ op = "Result.inspectErr" =>
       res.calls = IF isErr(inp.self)
                   THEN <<[fn |-> inp.fn.id, args |-> <<inp.self.error>>]>>
                   ELSE <<>>

C26_Witness ==
  /\ op = "Result.inspectErr"
  /\ isErr(inp.self)
  /\ inp.fn.ret # inp.self.error
  /\ res.val.ref = "self"
  /\ res.val = inp.self
  /\ res.calls = <<[fn |-> "fn", args |-> <<inp.self.error>>]>>

\* C27: exactly one of isSome and isNone is true of an option;
\* isSomeAnd(p)(o) is true exactly when o is Some(v) and p(v);
\* isNoneOr(p)(o) is true exactly when o is None or p(v); hence
\* isNoneOr(p)(o) = not isSomeAnd(not p)(o).
C27_Predicates ==
  /\ op = "Option.predicates" =>
       LET o == inp.self
           holds == o.tag = "Some" /\ o.value = inp.predicate.k
           r == res.val.items
       IN /\ ~res.thrown
          /\ r[1].b # r[2].b
          /\ r[1].b <=> o.tag = "Some"
          /\ r[3] = Bool(holds)
          /\ r[4] = Bool(o.tag = "None" \/ holds)
          /\ r[4].b = ~r[5].b
  /\ op = "Option.isSomeAnd" =>
       res.val = Bool(inp.self.tag = "Some" /\ inp.self.value = inp.predicate.k)
  /\ op = "Option.isNoneOr" =>
       res.val = Bool(inp.self.tag = "None" \/ inp.self.value = inp.fn.k)

C27_Witness ==
  /\ op = "Option.predicates"
  /\ inp.self.tag = "Some"
  /\ inp.self.value # inp.predicate.k
  /\ res.val.items = <<Bool(TRUE), Bool(FALSE), Bool(FALSE), Bool(FALSE), Bool(TRUE)>>

\* C28: Duration.divide(q) never throws: it returns
\* Err(IntegerDivisionByZeroError) exactly when q is 0, and otherwise Ok of
\* the duration whose milliseconds are the receiver's divided by q; the result
\* is built with Ok / Err, so Result.map and Result.andThen apply to it
\* unchanged.
C28_Divide ==
  /\ op = "Duration.divide" =>
       LET q == inp.quotient.n
           ms == inp.self.milliseconds
       IN /\ ~res.thrown
          /\ isErr(res.val) <=> q = 0
          /\ q = 0 => res.val = Err(IntegerDivisionByZeroError)
          /\ q # 0 =>
               /\ isOk(res.val)
               /\ res.val.value.tag = "Duration"
               /\ res.val.value.milliseconds.d > 0
               /\ res.val.value.milliseconds.n * q * ms.d
                    = ms.n * res.val.value.milliseconds.d
  /\ op = "Duration.divide.map" =>
       LET q == inp.quotient.n
           ms == inp.self.milliseconds
       IN /\ ~res.thrown
          /\ q = 0 => res.val = Err(IntegerDivisionByZeroError) /\ res.calls = <<>>
          /\ q # 0 =>
               /\ isOk(res.val)
               /\ res.val.value.n * q * ms.d = ms.n * res.val.value.d
               /\ Len(res.calls) = 1
               /\ res.calls[1].args[1].tag = "Duration"
  /\ op = "Duration.divide.andThen" =>
       LET q == inp.quotient.n
           k == inp.fn.k.n
           ms == inp.self.milliseconds
       IN /\ ~res.thrown
          /\ isErr(res.val) <=> (q = 0 \/ k = 0)
          /\ isErr(res.val) => res.val = Err(IntegerDivisionByZeroError)
          /\ q = 0 => res.calls = <<>>
          /\ isOk(res.val) =>
               res.val.value.milliseconds.n * q * k * ms.d
                 = ms.n * res.val.value.milliseconds.d

C28_Witness ==
  /\ op = "Duration.divide"
  /\ inp.self.milliseconds = Ratio(3, 1)
  /\ inp.quotient = Num(2)
  /\ res.val = Ok(fromMilliseconds(Ratio(3, 2)))

\* The bounded-integer constructors.
MathOps == {"math.i8", "math.i16", "math.i32", "math.u8", "math.u16", "math.u32"}

\* C30: each bounded-integer constructor wraps every integer number into the
\* range of its type, so that the range check of the type accepts the result,
\* and returns an input that is already in range as it is.
C30_BoundedIntegers ==
  (op \in MathOps /\ inp.value.tag = "number") =>
    /\ ~res.thrown
    /\ res.val.items[2] = Bool(TRUE)
    /\ res.val.items[3] = Bool(TRUE) => res.val.items[1] = inp.value

\* The steps that keep a failure.
ResultShortCircuits ==
  {"Result.map", "Result.andThen", "Result.and", "Result.inspect", "Result.flatten"}

OptionShortCircuits ==
  {"Option.map", "Option.andThen", "Option.and", "Option.filter", "Option.flatten",
   "Option.zip", "Option.zipWith", "Option.inspect"}

\* The steps that can leave the failure variant.
Recoveries ==
  {"Result.or", "Result.orElse", "Result.unwrapOr", "Option.or", "Option.orElse",
   "Option.mapOr", "Option.okOr", "Option.unwrapOr"}

\* The step the chain has just been continued with.
LastStep == inp.fns[Len(inp.fns)]

=============================================================================
